---- MODULE Spec2Model ----
(***************************************************************************)
(* Model of the git-quick-merge engine: worktree name allocation, the      *)
(* per-target merge flow with cleanup, the batch coordinator, the          *)
(* unpushed-commit guard and the stale worktree scanner/cleaner.           *)
(*                                                                         *)
(* Strings that the code inspects (paths, branch names, timestamps) are    *)
(* sequences of one-character strings, so that path.join, path.basename,   *)
(* String.includes, String.startsWith, String.replace and String.slice    *)
(* are computed as the code computes them.                                 *)
(*                                                                         *)
(* Several extension hosts (one per editor window) run the same code on    *)
(* the same machine; they share os.tmpdir() and so the worktree base       *)
(* directory, and each has its own workspace / repository.                 *)
(***************************************************************************)
EXTENDS Integers, Sequences, FiniteSets, TLC

(***************************************************************************)
(* Bounds of the model (not program constants).                            *)
(***************************************************************************)
\* number of 1 ms clock ticks explored after ClockStart
MaxTicks == 1
\* longest target list handed to the batch coordinator
MaxTargets == 2
\* merge invocations a host starts
MaxInvocations == 2
\* merge flows the other host starts
MaxOtherFlows == 1
\* largest number of local / unpushed commits of the source branch
MaxCommits == 6
MaxPaths == 2

(***************************************************************************)
(* String helpers (JavaScript String / node path semantics).               *)
(***************************************************************************)
Includes(s, sub) ==
  \E i \in 1..(Len(s) - Len(sub) + 1) : SubSeq(s, i, i + Len(sub) - 1) = sub

StartsWith(s, pre) ==
  Len(s) >= Len(pre) /\ SubSeq(s, 1, Len(pre)) = pre

\* String.prototype.slice(-n): the last n characters (the whole string when shorter)
SliceLast(s, n) ==
  IF Len(s) <= n THEN s ELSE SubSeq(s, Len(s) - n + 1, Len(s))

\* index of the last "/" of a path, 0 when there is none
LastSlash(p) ==
  LET idx == {i \in 1..Len(p) : p[i] = "/"}
  IN IF idx = {} THEN 0 ELSE CHOOSE i \in idx : \A j \in idx : j <= i

Basename(p) == SubSeq(p, LastSlash(p) + 1, Len(p))

Dirname(p) == SubSeq(p, 1, LastSlash(p) - 1)

PathJoin(a, b) == a \o <<"/">> \o b

Digit(d) == CASE d = 0 -> "0" [] d = 1 -> "1" [] d = 2 -> "2" [] d = 3 -> "3"
              [] d = 4 -> "4" [] d = 5 -> "5" [] d = 6 -> "6" [] d = 7 -> "7"
              [] d = 8 -> "8" [] d = 9 -> "9"

\* Number.prototype.toString() of a non-negative integer
RECURSIVE NumToString(_)
NumToString(n) ==
  IF n < 10 THEN <<Digit(n)>> ELSE NumToString(n \div 10) \o <<Digit(n % 10)>>

AlnumChars ==
  {"a","b","c","d","e","f","g","h","i","j","k","l","m","n","o","p","q","r","s",
   "t","u","v","w","x","y","z",
   "A","B","C","D","E","F","G","H","I","J","K","L","M","N","O","P","Q","R","S",
   "T","U","V","W","X","Y","Z",
   "0","1","2","3","4","5","6","7","8","9"}

\* targetBranch.replace(/[^a-zA-Z0-9]/g, '-')
SafeBranchName(branch) ==
  [i \in 1..Len(branch) |-> IF branch[i] \in AlnumChars THEN branch[i] ELSE "-"]

(***************************************************************************)
(* Program constants.                                                      *)
(***************************************************************************)
\* os.tmpdir()
TmpDir == <<"/","t","m","p">>

\* 'vscode-git-auto-merge'
MARKER == <<"v","s","c","o","d","e","-","g","i","t","-","a","u","t","o","-",
            "m","e","r","g","e">>

\* 'merge-'
MERGE_PREFIX == <<"m","e","r","g","e","-">>

\* length of the timestamp suffix: Date.now().toString().slice(-6)
SuffixLen == 6

\* number of commits of the report kept for display: commits.slice(0, 5), -n 5
DisplayCap == 5

getWorktreesBaseDir == PathJoin(TmpDir, MARKER)

\* Date.now() at the first explored instant.  TLC integers are 32 bits wide,
\* so the epoch milliseconds are represented by their ten low decimal digits;
\* only the last SuffixLen digits are read by the code.
ClockStart == 1699999999

Clock == ClockStart..(ClockStart + MaxTicks)

\* branch names
FEAT == <<"f","e","a","t">>
DEVELOP == <<"d","e","v","e","l","o","p">>
HOTFIX == <<"h","o","t","/","f","i","x">>

Branches == {FEAT, DEVELOP, HOTFIX}


(***************************************************************************)
(* Extension hosts and their workspaces.                                   *)
(***************************************************************************)
\* Host runs merge invocations in full; OtherHost is a second editor window on
\* the same machine, followed only through the steps of its flows that touch
\* the shared base directory.
Host == "p1"
OtherHost == "p2"
Procs == {Host}

\* vscode.workspace.workspaceFolders[0].uri.fsPath of an extension host
getWorkspacePath(p) == IF p = "p1" THEN <<"/","w","1">> ELSE <<"/","w","2">>

Repos == {getWorkspacePath(p) : p \in {Host, OtherHost}}

\* a branch name or path that is null / undefined / '' (all falsy in the code)
NULL == <<>>
\* the commit id getCurrentCommitId returns when `git rev-parse HEAD` fails
NullCommit == -1
UNDEFINED == "undefined"

VARIABLES
  now,            \* Date.now()
  dirs,           \* directories that exist on the file system
  tree,           \* tree[dir]: repository and branch of a working directory
  pc,             \* pc[p]: position of the merge invocation of extension host p
  mode,           \* "single" (executeFlow) or "batch" (executeMultipleMergeGeneric)
  sourceBranch,   \* sourceBranch read by the invocation
  targetBranches, \* target list of the invocation
  idx,            \* index of the target being processed
  config,         \* WorktreeConfig of the current per-target flow
  error,          \* context of the error caught by the current per-target flow
  beforeMergeCommitId,
  afterMergeCommitId,
  head,           \* HEAD commit of the worktree of the current per-target flow
  cleanupCalls,   \* calls of cleanupWorktree made by the current per-target flow
  results,        \* MultipleMergeResult[] of the batch
  shown,          \* messages shown by the invocation (level, key)
  log,            \* git commands issued by the invocation since its last phase start
  report,         \* report of checkUnpushedCommits while the prompt is open
  allocs,         \* calls of createWorktreeConfig made by the invocation
  attempts,       \* target branches createWorktree was called for by the invocation
  invocations,    \* merge invocations started so far
  otherConfig,    \* WorktreeConfig of the flow in progress in the other host
  otherFlows,     \* merge flows the other host has started so far
  lastOp,         \* last direct call of an exported cleanup routine
  guard,          \* how checkAndHandleUnpushedCommits has just returned
  scanCalls,      \* calls of checkAndPromptStaleWorktrees made by the invocation
  lastRun         \* last pair of whole invocations run side by side

fsVars == <<dirs, tree>>
flowVars == <<config, error, beforeMergeCommitId, afterMergeCommitId, head, cleanupCalls>>
invVars == <<mode, sourceBranch, targetBranches, idx, results, shown, report>>
\* state outside the merge invocations of the host
restVars == <<otherConfig, otherFlows, lastOp>>
\* observations of an invocation that the code itself does not keep
ghostVars == <<guard, scanCalls>>
vars == <<now, dirs, tree, pc, mode, sourceBranch, targetBranches, idx,
          config, error, beforeMergeCommitId, afterMergeCommitId, head, cleanupCalls,
          results, shown, log, report, allocs, attempts, invocations,
          otherConfig, otherFlows, lastOp, guard, scanCalls, lastRun>>

NoConfig == [repoPath |-> <<>>, worktreePath |-> <<>>, targetBranch |-> <<>>,
             sourceBranch |-> <<>>]
NoReport == [hasUnpushed |-> FALSE, commitCount |-> 0, commits |-> <<>>]
NoOp == [op |-> "none", paths |-> <<>>, repoPath |-> <<>>, repeats |-> FALSE,
         before |-> [dirs |-> {}, tree |-> <<>>],
         success |-> 0, failed |-> 0, cmds |-> <<>>, trace |-> <<>>]

NoRun == [op |-> "none"]

Cmd(c, cwd, arg) == [cmd |-> c, cwd |-> cwd, arg |-> arg]
Msg(level, key) == [level |-> level, key |-> key, detail |-> "undefined",
                    successBranches |-> <<>>, failedBranches |-> <<>>]

(***************************************************************************)
(* WorktreeNameAllocator.                                                  *)
(***************************************************************************)
createWorktreeConfig(repoPath, targetBranch, source, dateNow) ==
  LET timestamp == SliceLast(NumToString(dateNow), SuffixLen)
      safeBranchName == SafeBranchName(targetBranch)
      worktreeName == MERGE_PREFIX \o safeBranchName \o <<"-">> \o timestamp
      worktreePath == PathJoin(getWorktreesBaseDir, worktreeName)
  IN [repoPath |-> repoPath, worktreePath |-> worktreePath,
      targetBranch |-> targetBranch, sourceBranch |-> source]

(***************************************************************************)
(* The file system and git, as far as the engine's commands touch them.    *)
(* A state st is [dirs, tree]: the directories that exist, and for each    *)
(* directory that is a working directory of a repository (the workspace    *)
(* itself or a registered worktree) the repository and the branch checked  *)
(* out.  The worktree table of a repository is followed for the worktrees  *)
(* whose directory exists.                                                 *)
(***************************************************************************)
FsState == [dirs |-> dirs, tree |-> tree]

\* a file system on which every path is reported to exist
ExistsAlways(st, path) == TRUE

\* fs.existsSync(path)
ExistsSync(st, path) == path \in st.dirs

\* fs.rmSync(path, {recursive, force}) having succeeded
RmSync(st, path) ==
  [dirs |-> st.dirs \ {path},
   tree |-> [d \in (DOMAIN st.tree) \ {path} |-> st.tree[d]]]

\* worktrees of repo that `git worktree remove "<name>"` identifies: git matches
\* the name against the last path component of the registered worktrees
WorktreeMatches(st, repo, name) ==
  {w \in (DOMAIN st.tree) \ Repos : st.tree[w].repo = repo /\ Basename(w) = name}

\* `git worktree remove "<name>" --force` can succeed only when the name
\* identifies exactly one worktree of the repository
CanGitWorktreeRemove(st, repo, name) ==
  Cardinality(WorktreeMatches(st, repo, name)) = 1

\* effect of a successful `git worktree remove "<name>" --force`: the worktree
\* is deregistered and its directory deleted
GitWorktreeRemove(st, repo, name) ==
  RmSync(st, CHOOSE x \in WorktreeMatches(st, repo, name) : TRUE)

\* branch is checked out in a working directory of repo other than except
BranchInUse(st, repo, branch, except) ==
  \E d \in (DOMAIN st.tree) \ {except} :
     st.tree[d].repo = repo /\ st.tree[d].branch = branch

\* `git worktree add "<path>" "<branch>"` can succeed only on a path that does
\* not exist and for a branch no working directory of the repository has checked out
CanGitWorktreeAdd(st, repo, path, branch) ==
  /\ path \notin st.dirs
  /\ ~BranchInUse(st, repo, branch, path)

GitWorktreeAdd(st, repo, path, branch) ==
  [dirs |-> st.dirs \cup {path},
   tree |-> (path :> [repo |-> repo, branch |-> branch]) @@ st.tree]

\* a command run with cwd can only succeed in a directory that holds a checkout
CanRunIn(st, cwd) == cwd \in st.dirs /\ cwd \in DOMAIN st.tree

\* `git switch "<branch>"` can succeed only for a branch that no other working
\* directory of the same repository has checked out
CanGitSwitch(st, cwd, branch) ==
  /\ CanRunIn(st, cwd)
  /\ ~BranchInUse(st, st.tree[cwd].repo, branch, cwd)

\* `git switch "<branch>"` run in cwd
GitSwitch(st, cwd, branch) == [st EXCEPT !.tree[cwd].branch = branch]

(***************************************************************************)
(* WorktreeLifecycleManager: cleanup.                                      *)
(***************************************************************************)
\* cleanupWorktree(config); gitOk / rmOk: whether `git worktree remove` and
\* fs.rmSync succeed.  Returns the new file-system state, the commands issued
\* and whether the catch block logged cleanup.warning; nothing is thrown.
cleanupWorktree(st, cfg, gitOk, rmOk) ==
  LET repoPath == cfg.repoPath
      worktreePath == cfg.worktreePath
      worktreeName == Basename(worktreePath)
  IN IF ExistsSync(st, worktreePath)
     THEN IF gitOk /\ CanGitWorktreeRemove(st, repoPath, worktreeName)
          THEN LET s1 == GitWorktreeRemove(st, repoPath, worktreeName)
               IN [st |-> IF rmOk THEN RmSync(s1, worktreePath) ELSE s1,
                   cmds |-> <<Cmd("worktree remove", repoPath, worktreeName)>>,
                   warned |-> ~rmOk]
          ELSE \* execSync throws: rmSync is skipped, the error is only logged
               [st |-> st,
                cmds |-> <<Cmd("worktree remove", repoPath, worktreeName)>>,
                warned |-> TRUE]
     ELSE [st |-> st, cmds |-> <<>>, warned |-> FALSE]

(***************************************************************************)
(* StaleResourceScanner / Cleaner.                                         *)
(***************************************************************************)
RECURSIVE SetToSeq(_)
SetToSeq(S) ==
  IF S = {} THEN <<>>
  ELSE LET x == CHOOSE y \in S : TRUE IN <<x>> \o SetToSeq(S \ {x})

\* entries of the base directory that checkStaleWorktrees reports
StaleEntries(st) ==
  {d \in st.dirs : Dirname(d) = getWorktreesBaseDir
                   /\ StartsWith(Basename(d), MERGE_PREFIX)}

\* checkStaleWorktrees(); readOk: whether fs.readdirSync succeeds
checkStaleWorktrees(st, readOk) ==
  IF getWorktreesBaseDir \notin st.dirs THEN <<>>
  ELSE IF ~readOk THEN <<>>
  ELSE SetToSeq(StaleEntries(st))

\* a cleaner that takes every entry it is handed
StaleGuardAbsent(worktreePath) == TRUE

\* the guard of cleanupStaleWorktrees: worktreePath.includes('vscode-git-auto-merge')
StaleGuard(worktreePath) == Includes(worktreePath, MARKER)

\* an iteration whose `git worktree remove` shares the try block of the removal
StaleGitThrows(gitRan, gitDone) == ~gitRan \/ gitDone

\* the inner try block around `git worktree remove`: its catch only warns, the
\* iteration goes on to the removal of the directory
StaleGitSwallowed(gitRan, gitDone) == TRUE

\* one iteration of the loop of cleanupStaleWorktrees on entry worktreePath;
\* acc is [st, cmds, success, failed], o is [git, rm]: whether
\* `git worktree remove` and fs.rmSync succeed for this entry
StaleStep(acc, worktreePath, repoPath, o) ==
  IF ~StaleGuard(worktreePath) THEN acc
  ELSE
    LET worktreeName == Basename(worktreePath)
        gitRan == repoPath # NULL
        gitDone == gitRan /\ o.git
                   /\ CanGitWorktreeRemove(acc.st, repoPath, worktreeName)
        s1 == IF gitDone THEN GitWorktreeRemove(acc.st, repoPath, worktreeName)
              ELSE acc.st
        cmds1 == IF gitRan
                 THEN Append(acc.cmds,
                             Cmd("worktree remove", repoPath, worktreeName))
                 ELSE acc.cmds
    IN IF ~StaleGitSwallowed(gitRan, gitDone)
       THEN [st |-> s1, cmds |-> cmds1,
             success |-> acc.success, failed |-> acc.failed + 1]
       ELSE IF worktreePath \in s1.dirs
       THEN IF o.rm
            THEN [st |-> RmSync(s1, worktreePath), cmds |-> cmds1,
                  success |-> acc.success + 1, failed |-> acc.failed]
            ELSE [st |-> s1, cmds |-> cmds1,
                  success |-> acc.success, failed |-> acc.failed + 1]
       ELSE [st |-> s1, cmds |-> cmds1,
             success |-> acc.success + 1, failed |-> acc.failed]

RECURSIVE StaleLoop(_, _, _, _, _)
StaleLoop(acc, worktreePaths, repoPath, oc, i) ==
  IF i > Len(worktreePaths) THEN acc
  ELSE StaleLoop(StaleStep(acc, worktreePaths[i], repoPath, oc[i]),
                 worktreePaths, repoPath, oc, i + 1)

\* cleanupStaleWorktrees(worktreePaths, repoPath); oc[i] are the outcomes of
\* the external operations on the i-th entry
cleanupStaleWorktrees(st, worktreePaths, repoPath, oc) ==
  StaleLoop([st |-> st, cmds |-> <<>>, success |-> 0, failed |-> 0],
            worktreePaths, repoPath, oc, 1)

EntryOutcomes == [git : BOOLEAN, rm : BOOLEAN]

\* checkAndPromptStaleWorktrees() of extension host p
checkAndPromptStaleWorktrees(st, p, readOk, oc) ==
  LET staleWorktrees == checkStaleWorktrees(st, readOk)
  IN IF Len(staleWorktrees) = 0
     THEN [st |-> st, cmds |-> <<>>, success |-> 0, failed |-> 0]
     ELSE cleanupStaleWorktrees(st, staleWorktrees, getWorkspacePath(p), oc)

(***************************************************************************)
(* UnpushedCommitGuard: check.                                             *)
(***************************************************************************)
\* the n most recent commits, most recent first
RecentCommits(n) == [i \in 1..n |-> n - i + 1]

\* a slice that keeps everything
NoCap(a, b) == a

Min(a, b) == IF a < b THEN a ELSE b

\* Facts about the source branch that the queries of checkUnpushedCommits read:
\*   verifyOk : `git rev-parse --verify <remote>/<branch>` succeeds
\*   count    : result of `git rev-list --count HEAD`, -1 when the command fails
\*   logOk    : `git log --oneline -n 5 HEAD` succeeds
\*   range    : number of commits of `git log --oneline <remote>/<branch>..HEAD`,
\*              -1 when the command fails
\* (fields a run of the function does not read are fixed)
GuardFacts ==
  {f \in [verifyOk : BOOLEAN, count : -1..MaxCommits, logOk : BOOLEAN,
          range : -1..MaxCommits] :
     /\ f.verifyOk => (f.count = -1 /\ f.logOk)
     /\ ~f.verifyOk => (f.range = -1 /\ (f.count <= 0 => f.logOk))}

checkUnpushedCommits(f) ==
  IF ~f.verifyOk
  THEN IF f.count = -1 THEN NoReport
       ELSE IF f.count > 0
            THEN IF ~f.logOk THEN NoReport
                 ELSE [hasUnpushed |-> TRUE, commitCount |-> f.count,
                       commits |-> SubSeq(RecentCommits(f.count), 1,
                                          Min(f.count, DisplayCap))]
            ELSE NoReport
  ELSE IF f.range = -1 THEN NoReport
       ELSE LET commits == RecentCommits(f.range)
                commitCount == Len(commits)
            IN [hasUnpushed |-> commitCount > 0, commitCount |-> commitCount,
                commits |-> SubSeq(commits, 1, Min(commitCount, DisplayCap))]

\* the git commands checkUnpushedCommits issues, all in the workspace root
GuardCmds(f, repoPath, branchName) ==
  <<Cmd("rev-parse --verify", repoPath, branchName)>> \o
  (IF ~f.verifyOk
   THEN <<Cmd("rev-list --count HEAD", repoPath, <<>>)>> \o
        (IF f.count > 0
         THEN <<Cmd("log --oneline -n 5 HEAD", repoPath, <<>>)>>
         ELSE <<>>)
   ELSE <<Cmd("log --oneline range", repoPath, branchName)>>)


(***************************************************************************)
(* Inputs of the entry points.                                             *)
(***************************************************************************)
\* target branches handed to executeFlow / executePresetMergeFlow
TargetChoices == {DEVELOP, HOTFIX}

RECURSIVE SeqsUpTo(_, _)
SeqsUpTo(S, n) ==
  IF n = 0 THEN {<<>>}
  ELSE LET shorter == SeqsUpTo(S, n - 1)
       IN shorter \cup {Append(q, x) : q \in {r \in shorter : Len(r) = n - 1}, x \in S}

\* preset.branches handed to executePresetMergeFlow
PresetChoices == SeqsUpTo(TargetChoices, MaxTargets) \ {<<>>}

(***************************************************************************)
(* Initial state: both extension hosts activated, nothing under os.tmpdir. *)
(***************************************************************************)
HostsIdle ==
  /\ now = ClockStart
  /\ pc = [p \in Procs |-> "idle"]
  /\ mode = [p \in Procs |-> "none"]
  /\ sourceBranch = [p \in Procs |-> NULL]
  /\ targetBranches = [p \in Procs |-> <<>>]
  /\ idx = [p \in Procs |-> 0]
  /\ config = [p \in Procs |-> NoConfig]
  /\ error = [p \in Procs |-> UNDEFINED]
  /\ beforeMergeCommitId = [p \in Procs |-> NullCommit]
  /\ afterMergeCommitId = [p \in Procs |-> NullCommit]
  /\ head = [p \in Procs |-> 0]
  /\ cleanupCalls = [p \in Procs |-> 0]
  /\ results = [p \in Procs |-> <<>>]
  /\ shown = [p \in Procs |-> <<>>]
  /\ log = [p \in Procs |-> <<>>]
  /\ report = [p \in Procs |-> NoReport]
  /\ allocs = [p \in Procs |-> <<>>]
  /\ attempts = [p \in Procs |-> <<>>]
  /\ invocations = 0
  /\ otherConfig = NoConfig
  /\ otherFlows = 0
  /\ lastOp = NoOp
  /\ guard = [p \in Procs |-> "none"]
  /\ scanCalls = [p \in Procs |-> 0]
  /\ lastRun = NoRun

Init ==
  /\ HostsIdle
  /\ dirs = Repos
  /\ tree = [r \in Repos |-> [repo |-> r, branch |-> FEAT]]

SetFs(st) == /\ dirs' = st.dirs
             /\ tree' = st.tree

\* where an invocation goes once the guard lets it continue: executeFlow builds
\* the config and then scans; executeMultipleMergeCore scans first
AfterGuard(md) == IF md = "single" THEN "alloc" ELSE "scan"

(***************************************************************************)
(* Entry points: executeFlow and executeMultipleMergeGeneric up to the     *)
(* prompt of checkAndHandleUnpushedCommits.                                *)
(*   how : getCurrentBranchName answers through the git extension API      *)
(*         ("api"), through the command line ("cli"), or fails ("fail")    *)
(*   f   : the facts the guard's queries read                              *)
(***************************************************************************)
\* a guard that prompts whatever the report says
GuardNeverSkips(rep) == FALSE

\* if (!hasUnpushed) return true: the guard returns without a prompt
GuardSkips(rep) == ~rep.hasUnpushed

Begin(p, md, targets, how, f) ==
  LET workspacePath == getWorkspacePath(p)
      src == IF how = "fail" THEN NULL ELSE tree[workspacePath].branch
      branchCmds == IF how = "api" THEN <<>>
                    ELSE <<Cmd("rev-parse --abbrev-ref HEAD", workspacePath,
                               <<>>)>>
      rep == checkUnpushedCommits(f)
  IN /\ pc[p] = "idle"
     /\ invocations < MaxInvocations
     /\ invocations' = invocations + 1
     /\ mode' = [mode EXCEPT ![p] = md]
     /\ targetBranches' = [targetBranches EXCEPT ![p] = targets]
     /\ sourceBranch' = [sourceBranch EXCEPT ![p] = src]
     /\ idx' = [idx EXCEPT ![p] = 1]
     /\ IF src = NULL
        THEN /\ shown' = [shown EXCEPT ![p] =
                            Append(@, Msg("error", "error.cannotGetBranchInfo"))]
             /\ log' = [log EXCEPT ![p] = branchCmds]
             /\ pc' = [pc EXCEPT ![p] = "done"]
             /\ UNCHANGED <<report, guard>>
        ELSE /\ log' = [log EXCEPT ![p] =
                          branchCmds \o GuardCmds(f, workspacePath, src)]
             /\ UNCHANGED shown
             /\ IF GuardSkips(rep)
                THEN /\ pc' = [pc EXCEPT ![p] = AfterGuard(md)]
                     /\ guard' = [guard EXCEPT ![p] = "clean"]
                     /\ UNCHANGED report
                ELSE /\ pc' = [pc EXCEPT ![p] = "prompt"]
                     /\ report' = [report EXCEPT ![p] = rep]
                     /\ UNCHANGED guard
     /\ UNCHANGED <<now, fsVars, flowVars, results, allocs, attempts, restVars,
                    scanCalls, lastRun>>

executeFlow(p, targetBranch) ==
  \E how \in {"api", "cli", "fail"}, f \in GuardFacts :
     Begin(p, "single", <<targetBranch>>, how, f)

executePresetMergeFlow(p, branches) ==
  \E how \in {"api", "cli", "fail"}, f \in GuardFacts :
     Begin(p, "batch", branches, how, f)

\* a switch whose default case lets the invocation continue
AfterChoiceDefaultContinues(choice, md) ==
  CASE choice = "PUSH_AND_CONTINUE" -> "guardPush"
    [] choice = "CONTINUE_WITHOUT_PUSH" -> AfterGuard(md)
    [] choice = "CANCEL" -> "done"
    [] OTHER -> AfterGuard(md)

\* switch (choice): where the invocation goes after the prompt has returned
AfterChoice(choice, md) ==
  CASE choice = "PUSH_AND_CONTINUE" -> "guardPush"
    [] choice = "CONTINUE_WITHOUT_PUSH" -> AfterGuard(md)
    [] OTHER -> "done"

\* the modal prompt of checkAndHandleUnpushedCommits returns the user's choice
\* (undefined when the prompt is dismissed)
PromptChoice(p, choice) ==
  /\ pc[p] = "prompt"
  /\ pc' = [pc EXCEPT ![p] = AfterChoice(choice, mode[p])]
  /\ guard' = [guard EXCEPT ![p] =
                 CASE choice = "PUSH_AND_CONTINUE" -> "none"
                   [] choice = "CONTINUE_WITHOUT_PUSH" -> "continue"
                   [] choice = "CANCEL" -> "cancel"
                   [] OTHER -> "dismissed"]
  /\ UNCHANGED <<scanCalls, lastRun>>
  /\ report' = [report EXCEPT ![p] =
                  IF choice = "PUSH_AND_CONTINUE" THEN @ ELSE NoReport]
  /\ UNCHANGED <<now, fsVars, mode, sourceBranch, targetBranches, idx,
                 flowVars, results, shown, log, allocs, attempts, invocations, restVars>>

\* a guard that continues although its push threw
GuardPushIgnoresFailure(ok) == TRUE

\* try { ... await pushCurrentBranch ... return true } catch { ... return false }
GuardPushProceeds(ok) == ok

\* pushCurrentBranch(repoPath, branchName) inside the PUSH_AND_CONTINUE case
GuardPush(p, ok) ==
  /\ pc[p] = "guardPush"
  /\ log' = [log EXCEPT ![p] =
               Append(@, Cmd("push", getWorkspacePath(p), sourceBranch[p]))]
  /\ guard' = [guard EXCEPT ![p] = IF ok THEN "pushed" ELSE "pushFailed"]
  /\ UNCHANGED <<scanCalls, lastRun>>
  /\ IF GuardPushProceeds(ok)
     THEN /\ pc' = [pc EXCEPT ![p] = AfterGuard(mode[p])]
          /\ UNCHANGED shown
     ELSE /\ pc' = [pc EXCEPT ![p] = "done"]
          /\ shown' = [shown EXCEPT ![p] = Append(@, Msg("error", "error.pushFailed"))]
  /\ report' = [report EXCEPT ![p] = NoReport]
  /\ UNCHANGED <<now, fsVars, mode, sourceBranch, targetBranches, idx,
                 flowVars, results, allocs, attempts, invocations, restVars>>


(***************************************************************************)
(* WorktreeLifecycleManager: create, switch, pull, merge, push.            *)
(* Each returns [st, cmds, ok]: the new file-system state, the commands    *)
(* issued and whether the primitive returned (TRUE) or threw (FALSE).      *)
(***************************************************************************)
\* createWorktree; oc: fs.mkdirSync throws ("mkdirFail"), `git worktree add`
\* fails ("gitFail"), or both succeed ("ok")
createWorktree(st, repoPath, worktreePath, targetBranch, oc) ==
  LET parentDir == Dirname(worktreePath)
      cwd == repoPath
  IN IF parentDir \notin st.dirs /\ oc = "mkdirFail"
     THEN [st |-> st, cmds |-> <<>>, ok |-> FALSE]
     ELSE LET s1 == [st EXCEPT !.dirs = @ \cup {parentDir}]
              done == oc = "ok" /\ CanGitWorktreeAdd(s1, cwd, worktreePath, targetBranch)
          IN [st |-> IF done THEN GitWorktreeAdd(s1, cwd, worktreePath, targetBranch)
                     ELSE s1,
              cmds |-> <<Cmd("worktree add", cwd, worktreePath)>>,
              ok |-> done]

\* a switch that runs in the workspace root
SwitchInWorkspace(repoPath, worktreePath) == repoPath

\* working directory of the `git switch` of switchToTargetBranch
SwitchCwd(repoPath, worktreePath) == worktreePath

switchToTargetBranch(st, repoPath, worktreePath, targetBranch, ok) ==
  LET cwd == SwitchCwd(repoPath, worktreePath)
      done == ok /\ CanGitSwitch(st, cwd, targetBranch)
  IN [st |-> IF done THEN GitSwitch(st, cwd, targetBranch) ELSE st,
      cmds |-> <<Cmd("switch", cwd, targetBranch)>>,
      ok |-> done]

\* pullLatestCode
pullLatestCode(st, worktreePath, targetBranch, ok) ==
  LET cwd == worktreePath
      done == ok /\ CanRunIn(st, cwd)
  IN [st |-> st, cmds |-> <<Cmd("pull", cwd, targetBranch)>>, ok |-> done]

\* mergeBranch
mergeBranch(st, worktreePath, source, ok) ==
  LET cwd == worktreePath
      done == ok /\ CanRunIn(st, cwd)
  IN [st |-> st, cmds |-> <<Cmd("merge", cwd, source)>>, ok |-> done]

pushToRemote(st, worktreePath, targetBranch, ok) ==
  LET cwd == worktreePath
      done == ok /\ CanRunIn(st, cwd)
  IN [st |-> st, cmds |-> <<Cmd("push", cwd, targetBranch)>>, ok |-> done]

\* getCurrentCommitId(repoPath) in a worktree whose HEAD is commit h: the
\* commit id, or null when `git rev-parse HEAD` fails
getCurrentCommitId(st, repoPath, h, ok) ==
  LET done == ok /\ CanRunIn(st, repoPath)
  IN [id |-> IF done THEN h ELSE NullCommit,
      cmds |-> <<Cmd("rev-parse HEAD", repoPath, <<>>)>>]

(***************************************************************************)
(* MergeFlowStateMachine: the body of executeWorkTreeFlow (single target)  *)
(* and of executeSingleMergeFlow (one target of a batch), one action per   *)
(* external command.                                                       *)
(***************************************************************************)
\* createWorktreeConfig(workspacePath, targetBranch, sourceBranch): in
\* executeFlow after the guard, in executeSingleMergeFlow as its first statement
AllocConfig(p) ==
  /\ pc[p] = "alloc"
  /\ config' = [config EXCEPT ![p] =
                  createWorktreeConfig(getWorkspacePath(p), targetBranches[p][idx[p]],
                                       sourceBranch[p], now)]
  /\ error' = [error EXCEPT ![p] = UNDEFINED]
  /\ beforeMergeCommitId' = [beforeMergeCommitId EXCEPT ![p] = NullCommit]
  /\ afterMergeCommitId' = [afterMergeCommitId EXCEPT ![p] = NullCommit]
  /\ head' = [head EXCEPT ![p] = 0]
  /\ cleanupCalls' = [cleanupCalls EXCEPT ![p] = 0]
  /\ log' = [log EXCEPT ![p] = <<>>]
  /\ allocs' = [allocs EXCEPT ![p] =
                  Append(@, [targetBranch |-> targetBranches[p][idx[p]], at |-> now,
                             worktreePath |-> config'[p].worktreePath])]
  /\ pc' = [pc EXCEPT ![p] = IF mode[p] = "single" THEN "scan" ELSE "create"]
  /\ guard' = [guard EXCEPT ![p] = "none"]
  /\ UNCHANGED <<now, fsVars, invVars, attempts, invocations, scanCalls, lastRun, restVars>>

\* a flow that gives up when the stale cleaner could not remove an entry
AfterScanFatal(r, m) ==
  IF r.failed > 0 THEN "cleanup" ELSE IF m = "single" THEN "create" ELSE "alloc"

\* the statement after `await checkAndPromptStaleWorktrees()`, which returns
\* nothing: createWorktree in executeWorkTreeFlow, the loop over the targets in
\* executeMultipleMergeCore
AfterScan(r, m) == IF m = "single" THEN "create" ELSE "alloc"

\* checkAndPromptStaleWorktrees(): first statement of the try block of
\* executeWorkTreeFlow, and of the progress callback of executeMultipleMergeCore
Scan(p) ==
  /\ pc[p] = "scan"
  /\ \E readOk \in BOOLEAN :
     \E oc \in [1..Len(checkStaleWorktrees(FsState, readOk)) -> EntryOutcomes] :
        LET r == checkAndPromptStaleWorktrees(FsState, p, readOk, oc)
        IN /\ SetFs(r.st)
           /\ log' = [log EXCEPT ![p] = @ \o r.cmds]
           /\ pc' = [pc EXCEPT ![p] = AfterScan(r, mode[p])]
  /\ guard' = [guard EXCEPT ![p] = "none"]
  /\ scanCalls' = [scanCalls EXCEPT ![p] = @ + 1]
  /\ UNCHANGED <<now, invVars, flowVars, allocs, attempts, invocations, lastRun, restVars>>

\* a stage whose failure is remembered while the flow goes on to the next stage
StageStepContinuing(p, r, key, next) ==
  /\ SetFs(r.st)
  /\ log' = [log EXCEPT ![p] = @ \o r.cmds]
  /\ pc' = [pc EXCEPT ![p] = next]
  /\ IF r.ok
     THEN UNCHANGED error
     ELSE error' = [error EXCEPT ![p] = key]
  /\ UNCHANGED <<now, invVars, config, beforeMergeCommitId, afterMergeCommitId,
                 head, cleanupCalls, allocs, invocations, ghostVars, lastRun, restVars>>

\* a primitive returned r: continue with the next stage, or jump to the catch block
\* which remembers the error of this stage
StageStep(p, r, key, next) ==
  /\ SetFs(r.st)
  /\ log' = [log EXCEPT ![p] = @ \o r.cmds]
  /\ IF r.ok
     THEN /\ pc' = [pc EXCEPT ![p] = next]
          /\ UNCHANGED error
     ELSE /\ pc' = [pc EXCEPT ![p] = "cleanup"]
          /\ error' = [error EXCEPT ![p] = key]
  /\ UNCHANGED <<now, invVars, config, beforeMergeCommitId, afterMergeCommitId,
                 head, cleanupCalls, allocs, invocations, ghostVars, lastRun, restVars>>

Create(p) ==
  /\ pc[p] = "create"
  /\ attempts' = [attempts EXCEPT ![p] = Append(@, config[p].targetBranch)]
  /\ \E oc \in {"mkdirFail", "gitFail", "ok"} :
        StageStep(p, createWorktree(FsState, config[p].repoPath, config[p].worktreePath,
                                    config[p].targetBranch, oc),
                  "error.createWorktreeFailed", "switch")

Switch(p) ==
  /\ pc[p] = "switch"
  /\ UNCHANGED attempts
  /\ \E ok \in BOOLEAN :
        StageStep(p, switchToTargetBranch(FsState, config[p].repoPath,
                                          config[p].worktreePath,
                                          config[p].targetBranch, ok),
                  "error.switchBranchFailed", "pull")

Pull(p) ==
  /\ pc[p] = "pull"
  /\ UNCHANGED attempts
  /\ \E ok \in BOOLEAN :
        StageStep(p, pullLatestCode(FsState, config[p].worktreePath,
                                    config[p].targetBranch, ok),
                  "error.pullCodeFailed", "before")

\* const beforeMergeCommitId = getCurrentCommitId(worktreePath)
SnapBefore(p) ==
  /\ pc[p] = "before"
  /\ \E ok \in BOOLEAN :
        LET r == getCurrentCommitId(FsState, config[p].worktreePath, head[p], ok)
        IN /\ beforeMergeCommitId' = [beforeMergeCommitId EXCEPT ![p] = r.id]
           /\ log' = [log EXCEPT ![p] = @ \o r.cmds]
  /\ pc' = [pc EXCEPT ![p] = "merge"]
  /\ UNCHANGED <<now, fsVars, invVars, config, error, afterMergeCommitId, head,
                 cleanupCalls, allocs, attempts, invocations, ghostVars, lastRun, restVars>>

\* mergeBranch; adv: commits the merge of <remote>/<sourceBranch> adds on top
\* of HEAD (0: already up to date), -1 when `git merge` fails
Merge(p) ==
  /\ pc[p] = "merge"
  /\ \E adv \in {-1, 0, 1} :
        LET r == mergeBranch(FsState, config[p].worktreePath,
                             config[p].sourceBranch, adv # -1)
        IN /\ log' = [log EXCEPT ![p] = @ \o r.cmds]
           /\ IF r.ok
              THEN /\ pc' = [pc EXCEPT ![p] = "after"]
                   /\ head' = [head EXCEPT ![p] = @ + adv]
                   /\ UNCHANGED error
              ELSE /\ pc' = [pc EXCEPT ![p] = "cleanup"]
                   /\ error' = [error EXCEPT ![p] = "error.mergeBranchFailed"]
                   /\ UNCHANGED head
  /\ UNCHANGED <<now, fsVars, invVars, config, beforeMergeCommitId,
                 afterMergeCommitId, cleanupCalls, allocs, attempts, invocations, ghostVars, lastRun,
                 restVars>>

\* a flow that pushes only what the merge added
PushOnlyNewCommits(before, after) == IF before # after THEN "push" ELSE "cleanup"

\* the statement after `hasNewCommits = beforeMergeCommitId !== afterMergeCommitId`
AfterSnapshots(before, after) == "push"

\* const afterMergeCommitId = getCurrentCommitId(worktreePath)
SnapAfter(p) ==
  /\ pc[p] = "after"
  /\ \E ok \in BOOLEAN :
        LET r == getCurrentCommitId(FsState, config[p].worktreePath, head[p], ok)
        IN /\ afterMergeCommitId' = [afterMergeCommitId EXCEPT ![p] = r.id]
           /\ log' = [log EXCEPT ![p] = @ \o r.cmds]
           /\ pc' = [pc EXCEPT ![p] = AfterSnapshots(beforeMergeCommitId[p], r.id)]
  /\ UNCHANGED <<now, fsVars, invVars, config, error, beforeMergeCommitId,
                 head, cleanupCalls, allocs, attempts, invocations, ghostVars, lastRun, restVars>>

Push(p) ==
  /\ pc[p] = "push"
  /\ UNCHANGED attempts
  /\ \E ok \in BOOLEAN :
        StageStep(p, pushToRemote(FsState, config[p].worktreePath,
                                  config[p].targetBranch, ok),
                  "error.pushToRemoteFailed", "cleanup")

(***************************************************************************)
(* End of a per-target flow: cleanup, then the outcome.                    *)
(***************************************************************************)
IsSuccess(r) == r.success

\* a filter that finds no failed result
IsNeverFailure(r) == FALSE

IsFailure(r) == ~r.success

RECURSIVE MapTargets(_)
MapTargets(rs) ==
  IF rs = <<>> THEN <<>> ELSE <<Head(rs).targetBranch>> \o MapTargets(Tail(rs))

\* the message showMultipleMergeResults(results, sourceBranch, preset) shows
showMultipleMergeResults(rs) ==
  LET successResults == SelectSeq(rs, IsSuccess)
      failedResults == SelectSeq(rs, IsFailure)
  IN IF Len(failedResults) = 0
     THEN [level |-> "info", key |-> "success.presetMergeComplete",
           detail |-> UNDEFINED, successBranches |-> MapTargets(successResults), failedBranches |-> <<>>]
     ELSE IF Len(successResults) = 0
     THEN [level |-> "error", key |-> "error.mergeFailedGeneral",
           detail |-> UNDEFINED, successBranches |-> <<>>, failedBranches |-> MapTargets(failedResults)]
     ELSE [level |-> "warning", key |-> "success.presetMergePartial",
           detail |-> UNDEFINED, successBranches |-> MapTargets(successResults),
           failedBranches |-> MapTargets(failedResults)]

\* the result object executeSingleMergeFlow returns (hasNewCommits is absent
\* from a failure, error from a success)
MergeResult(targetBranch, err, before, after) ==
  IF err = UNDEFINED
  THEN [targetBranch |-> targetBranch, success |-> TRUE,
        hasNewCommits |-> before # after, error |-> UNDEFINED]
  ELSE [targetBranch |-> targetBranch, success |-> FALSE,
        hasNewCommits |-> FALSE, error |-> err]

\* the message executeWorkTreeFlow shows after cleanup; the text of a failure
\* carries handleError(error).message, the error of the stage that threw
SingleMessage(err, before, after) ==
  IF err = UNDEFINED
  THEN IF before # after THEN Msg("info", "success.mergeComplete")
       ELSE Msg("warning", "warning.noNewCommits")
  ELSE [Msg("error", "error.mergeFailedGeneral") EXCEPT !.detail = err]

\* a loop that keeps the successful results only
PushResultIfSuccess(rs, result) == IF result.success THEN Append(rs, result) ELSE rs

\* results.push(result) in the loop of executeMultipleMergeCore
PushResult(rs, result) == Append(rs, result)

\* a loop that breaks at the first failed target
LoopStopsOnFailure(i, n, result) == i < n /\ result.success

\* the loop condition of executeMultipleMergeCore after target i of n returned result
LoopContinues(i, n, result) == i < n

\* a catch block that reports the failure without calling cleanupWorktree
CleanupOnlyAfterSuccess(err) == IF err = UNDEFINED THEN 1 ELSE 0

\* number of cleanupWorktree calls a per-target flow makes on the way out
\* (one at the end of the try block or one in the catch block)
CleanupCallsOnExit(err) == 1

\* a cleanupWorktree that rethrows its failure to the flow, which reports it
ErrorFromCleanup(err, r) == IF r.warned THEN "cleanup.warning" ELSE err

\* the error the flow reports once cleanupWorktree has returned r: the catch
\* block of cleanupWorktree swallows its failure, the flow keeps what it had
ErrorAfterCleanup(err, r) == err

\* a loop that repeats the stale scan before each further target
NextTargetRescans(i) == "scan"

\* the loop body of executeMultipleMergeCore for target i + 1: it calls
\* executeSingleMergeFlow, which starts with createWorktreeConfig
NextTargetStep(i) == "alloc"

\* await cleanupWorktree(config) at the end of the try block or in the catch
\* block, followed by the report of the outcome
Cleanup(p) ==
  /\ pc[p] = "cleanup"
  /\ \E gitOk \in BOOLEAN, rmOk \in BOOLEAN :
        LET r == cleanupWorktree(FsState, config[p], gitOk, rmOk)
            err == ErrorAfterCleanup(error[p], r)
            result == MergeResult(targetBranches[p][idx[p]], err,
                                  beforeMergeCommitId[p], afterMergeCommitId[p])
            rs == PushResult(results[p], result)
        IN /\ IF CleanupCallsOnExit(error[p]) > 0 THEN SetFs(r.st)
              ELSE UNCHANGED fsVars
           /\ log' = [log EXCEPT ![p] =
                        IF CleanupCallsOnExit(error[p]) > 0 THEN @ \o r.cmds ELSE @]
           /\ IF mode[p] = "single"
              THEN /\ shown' = [shown EXCEPT ![p] =
                                  Append(@, SingleMessage(err, beforeMergeCommitId[p],
                                                          afterMergeCommitId[p]))]
                   /\ pc' = [pc EXCEPT ![p] = "done"]
                   /\ UNCHANGED <<results, idx>>
              ELSE /\ results' = [results EXCEPT ![p] = rs]
                   /\ IF LoopContinues(idx[p], Len(targetBranches[p]), result)
                      THEN /\ idx' = [idx EXCEPT ![p] = @ + 1]
                           /\ pc' = [pc EXCEPT ![p] = NextTargetStep(idx[p])]
                           /\ UNCHANGED shown
                      ELSE /\ shown' = [shown EXCEPT ![p] =
                                          Append(@, showMultipleMergeResults(rs))]
                           /\ pc' = [pc EXCEPT ![p] = "done"]
                           /\ UNCHANGED idx
  /\ cleanupCalls' = [cleanupCalls EXCEPT ![p] = @ + CleanupCallsOnExit(error[p])]
  /\ UNCHANGED <<now, mode, sourceBranch, targetBranches, report, config,
                 error, beforeMergeCommitId, afterMergeCommitId, head, allocs, attempts,
                 invocations, ghostVars, lastRun, restVars>>

\* the invocation has returned; the extension host is ready for the next command
Return(p) ==
  /\ pc[p] = "done"
  /\ pc' = [pc EXCEPT ![p] = "idle"]
  /\ mode' = [mode EXCEPT ![p] = "none"]
  /\ sourceBranch' = [sourceBranch EXCEPT ![p] = NULL]
  /\ targetBranches' = [targetBranches EXCEPT ![p] = <<>>]
  /\ idx' = [idx EXCEPT ![p] = 0]
  /\ config' = [config EXCEPT ![p] = NoConfig]
  /\ error' = [error EXCEPT ![p] = UNDEFINED]
  /\ beforeMergeCommitId' = [beforeMergeCommitId EXCEPT ![p] = NullCommit]
  /\ afterMergeCommitId' = [afterMergeCommitId EXCEPT ![p] = NullCommit]
  /\ head' = [head EXCEPT ![p] = 0]
  /\ cleanupCalls' = [cleanupCalls EXCEPT ![p] = 0]
  /\ results' = [results EXCEPT ![p] = <<>>]
  /\ shown' = [shown EXCEPT ![p] = <<>>]
  /\ log' = [log EXCEPT ![p] = <<>>]
  /\ report' = [report EXCEPT ![p] = NoReport]
  /\ allocs' = [allocs EXCEPT ![p] = <<>>]
  /\ attempts' = [attempts EXCEPT ![p] = <<>>]
  /\ guard' = [guard EXCEPT ![p] = "none"]
  /\ scanCalls' = [scanCalls EXCEPT ![p] = 0]
  /\ UNCHANGED <<now, fsVars, invocations, lastRun, restVars>>

(***************************************************************************)
(* Triggers outside a merge invocation.                                    *)
(***************************************************************************)
\* Positions at which the event loop of an extension host can run another
\* callback: before and after an invocation and while it awaits the modal prompt or
\* the timers around the guard's push.  A flow itself only awaits promises of
\* functions whose bodies are synchronous (execSync), so it runs to completion
\* as far as its own extension host is concerned; other hosts interleave freely.
Yielding(p) == pc[p] \in {"idle", "prompt", "guardPush", "done"}

\* the setTimeout callback of activate(): the delayed stale check.  The
\* extension host is activated whenever its window is opened or reloaded.
StartupClean(p) ==
  /\ Yielding(p)
  /\ \E skipCheck \in BOOLEAN :
        IF skipCheck THEN UNCHANGED fsVars
        ELSE \E readOk \in BOOLEAN :
             \E oc \in [1..Len(checkStaleWorktrees(FsState, readOk)) -> EntryOutcomes] :
                SetFs(checkAndPromptStaleWorktrees(FsState, p, readOk, oc).st)
  /\ UNCHANGED <<now, pc, invVars, flowVars, log, allocs, attempts, invocations, ghostVars, lastRun,
                 restVars>>

(***************************************************************************)
(* The other extension host: the same code in a second editor window with  *)
(* its own workspace, followed through the steps of its merge flows that   *)
(* touch the shared base directory (stale scan, create, cleanup); the      *)
(* stages in between run inside its own worktree.                          *)
(***************************************************************************)
\* checkAndPromptStaleWorktrees() of the other host: at the start of one of its
\* merge invocations or from its startup timer
OtherScan ==
  /\ otherConfig = NoConfig
  /\ UNCHANGED otherFlows
  /\ \E readOk \in BOOLEAN :
     \E oc \in [1..Len(checkStaleWorktrees(FsState, readOk)) -> EntryOutcomes] :
        SetFs(checkAndPromptStaleWorktrees(FsState, OtherHost, readOk, oc).st)
  /\ UNCHANGED <<now, pc, invVars, flowVars, log, allocs, attempts, invocations, ghostVars, lastRun,
                 restVars>>

\* createWorktreeConfig and createWorktree of a flow of the other host
OtherCreate(targetBranch) ==
  /\ otherConfig = NoConfig
  /\ otherFlows < MaxOtherFlows
  /\ otherFlows' = otherFlows + 1
  /\ LET cfg == createWorktreeConfig(getWorkspacePath(OtherHost), targetBranch,
                                     tree[getWorkspacePath(OtherHost)].branch, now)
     IN /\ otherConfig' = cfg
        /\ \E oc \in {"mkdirFail", "gitFail", "ok"} :
              SetFs(createWorktree(FsState, cfg.repoPath, cfg.worktreePath,
                                   cfg.targetBranch, oc).st)
  /\ UNCHANGED <<now, pc, invVars, flowVars, log, allocs, attempts, invocations, ghostVars, lastRun, lastOp>>

\* cleanupWorktree(config) at the end of that flow
OtherCleanup ==
  /\ otherConfig # NoConfig
  /\ \E gitOk \in BOOLEAN, rmOk \in BOOLEAN :
        SetFs(cleanupWorktree(FsState, otherConfig, gitOk, rmOk).st)
  /\ otherConfig' = NoConfig
  /\ UNCHANGED otherFlows
  /\ UNCHANGED <<now, pc, invVars, flowVars, log, allocs, attempts, invocations, ghostVars, lastRun, lastOp>>

\* one millisecond passes
Tick ==
  /\ now < ClockStart + MaxTicks
  /\ now' = now + 1
  /\ UNCHANGED <<fsVars, pc, invVars, flowVars, log, allocs, attempts, invocations, ghostVars, lastRun,
                 restVars>>

\* steps of a merge invocation of a host after its entry point
FlowStep(p) ==
  \/ \E c \in {"PUSH_AND_CONTINUE", "CONTINUE_WITHOUT_PUSH", "CANCEL", UNDEFINED} :
        PromptChoice(p, c)
  \/ \E ok \in BOOLEAN : GuardPush(p, ok)
  \/ AllocConfig(p)
  \/ Scan(p)
  \/ Create(p)
  \/ Switch(p)
  \/ Pull(p)
  \/ SnapBefore(p)
  \/ Merge(p)
  \/ SnapAfter(p)
  \/ Push(p)
  \/ Cleanup(p)
  \/ Return(p)

\* one extension host
Next ==
  \/ \E p \in Procs, b \in TargetChoices : executeFlow(p, b)
  \/ \E p \in Procs, bs \in PresetChoices : executePresetMergeFlow(p, bs)
  \/ \E p \in Procs : FlowStep(p)
  \/ \E p \in Procs : StartupClean(p)
  \/ Tick

\* two extension hosts that share the base directory
NextShared ==
  \/ \E p \in Procs, b \in TargetChoices : executeFlow(p, b)
  \/ \E p \in Procs : FlowStep(p)
  \/ \E p \in Procs : StartupClean(p)
  \/ OtherScan
  \/ \E b \in TargetChoices : OtherCreate(b)
  \/ OtherCleanup
  \/ Tick

SpecShared == Init /\ [][NextShared]_vars

Spec == Init /\ [][Next]_vars

TypeOK ==
  /\ now \in Clock
  /\ \A p \in Procs : pc[p] \in {"idle", "prompt", "guardPush", "alloc", "scan",
                                 "create", "switch", "pull", "before", "merge",
                                 "after", "push", "cleanup", "done"}

(***************************************************************************)
(* Properties of the per-target flow and of the batch.                     *)
(***************************************************************************)
\* the per-target flow of p has returned (single merge: the outcome is shown;
\* batch: the result is pushed and the loop is at its next iteration or over)
FlowEnded(p) == config[p] # NoConfig /\ pc[p] \in {"done", "alloc"}

\* `git worktree add` of the flow of p succeeded
WorktreeWasCreated(p) ==
  \E i \in 1..Len(log[p]) :
     /\ log[p][i].cmd = "worktree add"
     /\ error[p] # "error.createWorktreeFailed"

\* executeMultipleMergeCore has run its loop to the end
BatchDone(p) == mode[p] = "batch" /\ pc[p] = "done" /\ config[p] # NoConfig

\* C1: when a per-target flow returns, the worktree directory it created no
\* longer exists, whatever the external git commands did.
WorktreeGoneOnReturn ==
  \A p \in Procs :
     (FlowEnded(p) /\ WorktreeWasCreated(p)) => config[p].worktreePath \notin dirs

\* C2: a per-target flow calls cleanupWorktree exactly once: never before its
\* end, and once by the time it has returned, whichever stage failed.
ExactlyOneCleanup ==
  \A p \in Procs :
     /\ FlowEnded(p) => cleanupCalls[p] = 1
     /\ ~FlowEnded(p) => cleanupCalls[p] = 0

\* a flow whose merge stage failed has returned after one cleanup call
FailedFlowCleanedOnce ==
  \E p \in Procs :
     /\ FlowEnded(p)
     /\ error[p] = "error.mergeBranchFailed"
     /\ cleanupCalls[p] = 1

\* position of a command in the order of the stages (0: not a stage command)
StageRank(c) ==
  CASE c = "worktree add" -> 1
    [] c = "switch" -> 2
    [] c = "pull" -> 3
    [] c = "rev-parse HEAD" -> 4
    [] c = "merge" -> 4
    [] c = "push" -> 5
    [] OTHER -> 0

\* the stage an error message belongs to, and the command of that stage
ErrorRank(key) ==
  CASE key = "error.createWorktreeFailed" -> 1
    [] key = "error.switchBranchFailed" -> 2
    [] key = "error.pullCodeFailed" -> 3
    [] key = "error.mergeBranchFailed" -> 4
    [] key = "error.pushToRemoteFailed" -> 5
    [] OTHER -> 0

ErrorCmd(key) ==
  CASE key = "error.createWorktreeFailed" -> "worktree add"
    [] key = "error.switchBranchFailed" -> "switch"
    [] key = "error.pullCodeFailed" -> "pull"
    [] key = "error.mergeBranchFailed" -> "merge"
    [] key = "error.pushToRemoteFailed" -> "push"
    [] OTHER -> "none"

\* the outcome reported for the flow of p that has returned is a failure
ReportedFailed(p) ==
  IF mode[p] = "single"
  THEN Len(shown[p]) > 0 /\ shown[p][Len(shown[p])].level = "error"
  ELSE Len(results[p]) > 0 /\ ~results[p][Len(results[p])].success

\* C3: once a stage has failed, no command of a later stage is issued: the
\* commands of the flow stop at the failed stage, only the cleanup's
\* `worktree remove` follows, and the flow returns a failed outcome.
NoStageAfterFailure ==
  \A p \in Procs :
     error[p] # UNDEFINED =>
        LET L == log[p]
            failedAt == {j \in 1..Len(L) : L[j].cmd = ErrorCmd(error[p])}
        IN /\ \A i \in 1..Len(L) :
                /\ StageRank(L[i].cmd) <= ErrorRank(error[p])
                /\ \A j \in failedAt : i > j => L[i].cmd = "worktree remove"
                /\ failedAt = {} => L[i].cmd = "worktree remove"
           /\ pc[p] \in {"cleanup", "done", "alloc"}
           /\ FlowEnded(p) => ReportedFailed(p)

\* a flow whose pull failed has returned: the cleanup's command is the last one
PullFailedThenCleanup ==
  \E p \in Procs :
     /\ FlowEnded(p)
     /\ error[p] = "error.pullCodeFailed"
     /\ Len(log[p]) > 0
     /\ log[p][Len(log[p])].cmd = "worktree remove"
     /\ ReportedFailed(p)

\* C4: the batch returns one result per target, in the order of the input:
\* the i-th result names the i-th target branch.
BatchResultsAligned ==
  \A p \in Procs :
     BatchDone(p) =>
        /\ Len(results[p]) = Len(targetBranches[p])
        /\ \A i \in 1..Len(results[p]) :
              results[p][i].targetBranch = targetBranches[p][i]

\* a batch of two different targets is over, the first failed, the second succeeded
MixedBatchDone ==
  \E p \in Procs :
     /\ BatchDone(p)
     /\ Len(targetBranches[p]) = 2
     /\ targetBranches[p][1] # targetBranches[p][2]
     /\ Len(results[p]) = 2
     /\ ~results[p][1].success
     /\ results[p][2].success

\* C5: a failed target never stops the batch: by the end of the batch
\* createWorktree was called for every target of the list, in order.
EveryTargetAttempted ==
  \A p \in Procs :
     /\ BatchDone(p) => attempts[p] = targetBranches[p]
     /\ (mode[p] = "batch" /\ pc[p] = "alloc" /\ config[p] # NoConfig) =>
           /\ Len(attempts[p]) = Len(results[p])
           /\ Len(results[p]) < Len(targetBranches[p])

\* a batch is over whose first target failed and whose second was attempted
AttemptAfterFailure ==
  \E p \in Procs :
     /\ BatchDone(p)
     /\ Len(results[p]) > 0
     /\ ~results[p][1].success
     /\ Len(attempts[p]) = 2
     /\ \E i \in 1..Len(log[p]) : log[p][i].cmd = "worktree add"

\* commands that only read the repository
ReadOnlyCmds ==
  {"rev-parse --abbrev-ref HEAD", "rev-parse --verify", "rev-list --count HEAD",
   "log --oneline -n 5 HEAD", "log --oneline range", "worktree list",
   "remote", "ls-remote"}

\* every command of the log of p runs where the engine says it runs
CommandsInPlace(p) ==
  \A i \in 1..Len(log[p]) :
     LET c == log[p][i]
     IN /\ c.cmd \in {"switch", "pull", "merge", "rev-parse HEAD"} =>
             /\ c.cwd = config[p].worktreePath
             /\ c.cwd # getWorkspacePath(p)
        /\ (c.cmd = "push" /\ c.arg # sourceBranch[p]) =>
             /\ c.cwd = config[p].worktreePath
             /\ c.cwd # getWorkspacePath(p)
        /\ c.cwd = getWorkspacePath(p) =>
             \/ c.cmd \in ReadOnlyCmds
             \/ c.cmd \in {"worktree add", "worktree remove"}
             \/ c.cmd = "push" /\ c.arg = sourceBranch[p]

\* C6: no merge invocation touches the checkout of the workspace: switch,
\* pull, merge and the push of a target run in the worktree only, the
\* workspace root sees read-only queries, worktree add / remove and the
\* guard's push of the source branch, and the branch checked out in the
\* workspace never changes.
WorkspaceUndisturbed ==
  /\ [](\A p \in Procs : CommandsInPlace(p))
  /\ [][\A p \in Procs :
          /\ getWorkspacePath(p) \in dirs'
          /\ tree'[getWorkspacePath(p)] = tree[getWorkspacePath(p)]]_vars

\* a merge went through all its stages and the workspace is still on its branch
MergedOutsideWorkspace ==
  \E p \in Procs :
     /\ FlowEnded(p)
     /\ error[p] = UNDEFINED
     /\ \E i \in 1..Len(log[p]) : log[p][i].cmd = "push"
     /\ tree[getWorkspacePath(p)].branch = sourceBranch[p]

(***************************************************************************)
(* Properties of flows that share the base directory.                      *)
(***************************************************************************)
\* the flow of p has created its worktree and has not yet run its cleanup
OwnsWorktree(p) ==
  \/ pc[p] \in {"switch", "pull", "before", "merge", "after", "push"}
  \/ pc[p] = "cleanup" /\ error[p] # "error.createWorktreeFailed"

\* the job of p is alive: its configuration is allocated, its flow has not returned
JobAlive(p) ==
  /\ config[p] # NoConfig
  /\ pc[p] \in {"scan", "create", "switch", "pull", "before", "merge", "after",
                "push", "cleanup"}

\* C7: between the creation of its worktree and its own cleanup a flow is
\* the only one to touch the worktree directory: the directory stays in place,
\* registered as a worktree of the flow's repository, whatever stale scans,
\* startup cleans and flows of other hosts do in the meantime.
ExclusiveOwnership ==
  \A p \in Procs :
     OwnsWorktree(p) =>
        /\ config[p].worktreePath \in dirs
        /\ config[p].worktreePath \in DOMAIN tree
        /\ tree[config[p].worktreePath].repo = config[p].repoPath

\* C8: two calls of createWorktreeConfig for the same target within the same
\* second of one host return different paths, and two jobs alive at the same
\* time never share a worktree path.
UniqueWorktreePaths ==
  /\ \A p \in Procs : \A i, j \in 1..Len(allocs[p]) :
        (/\ i < j
         /\ allocs[p][i].targetBranch = allocs[p][j].targetBranch
         /\ allocs[p][i].at \div 1000 = allocs[p][j].at \div 1000)
        => allocs[p][i].worktreePath # allocs[p][j].worktreePath
  /\ \A p \in Procs :
        (JobAlive(p) /\ otherConfig # NoConfig)
        => config[p].worktreePath # otherConfig.worktreePath

(***************************************************************************)
(* The two cleanup routines called directly, on any path a caller can      *)
(* pass: inside the base directory, in a sibling directory whose name      *)
(* contains the marker, and elsewhere.                                     *)
(***************************************************************************)
\* /tmp/vscode-git-auto-merge/merge-a
InBase == PathJoin(getWorktreesBaseDir, MERGE_PREFIX \o <<"a">>)
\* /tmp/vscode-git-auto-merge2/merge-b
OutMarked == PathJoin(PathJoin(TmpDir, MARKER \o <<"2">>), MERGE_PREFIX \o <<"b">>)
\* /srv/merge-a
OutPlain == PathJoin(<<"/","s","r","v">>, MERGE_PREFIX \o <<"a">>)

\* worktreePaths / config.worktreePath values handed to the cleanup routines
ApiPaths == {InBase, OutMarked, OutPlain}

RELEASE == <<"r","e","l">>

\* the branch a worktree at one of these paths has checked out
ApiBranch(path) ==
  IF path = InBase THEN DEVELOP ELSE IF path = OutMarked THEN HOTFIX ELSE RELEASE

\* worktreePaths lists handed to cleanupStaleWorktrees
ApiLists == SeqsUpTo(ApiPaths, MaxPaths)

\* the file system before the calls: each path is absent, a plain directory,
\* or a registered worktree of the workspace repository of Host
InitApi ==
  /\ HostsIdle
  /\ \E present \in SUBSET ApiPaths : \E registered \in SUBSET present :
        /\ dirs = Repos \cup present \cup {Dirname(x) : x \in present}
        /\ tree = [d \in Repos \cup registered |->
                     IF d \in Repos THEN [repo |-> d, branch |-> FEAT]
                     ELSE [repo |-> getWorkspacePath(Host), branch |-> ApiBranch(d)]]

\* what the i-th iteration of the loop of cleanupStaleWorktrees did
StaleTrace(st, worktreePaths, repoPath, oc) ==
  [i \in 1..Len(worktreePaths) |->
     LET a == cleanupStaleWorktrees(st, SubSeq(worktreePaths, 1, i - 1), repoPath, oc)
         b == StaleStep(a, worktreePaths[i], repoPath, oc[i])
     IN [entry |-> worktreePaths[i], before |-> a.st, after |-> b.st,
         cmds |-> SubSeq(b.cmds, Len(a.cmds) + 1, Len(b.cmds)),
         counted |-> (b.success + b.failed) - (a.success + a.failed)]]

\* the call follows a call of cleanupStaleWorktrees with the same arguments
\* that reported no failed entry
RepeatsLastCall(worktreePaths, repoPath) ==
  /\ lastOp.op = "cleanupStaleWorktrees"
  /\ lastOp.paths = worktreePaths
  /\ lastOp.repoPath = repoPath
  /\ lastOp.failed = 0

\* a call cleanupStaleWorktrees(worktreePaths, repoPath)
ApiCleanupStale(worktreePaths, repoPath) ==
  \E oc \in [1..Len(worktreePaths) -> EntryOutcomes] :
     LET r == cleanupStaleWorktrees(FsState, worktreePaths, repoPath, oc)
     IN /\ SetFs(r.st)
        /\ lastOp' = [op |-> "cleanupStaleWorktrees", paths |-> worktreePaths,
                      repoPath |-> repoPath,
                      repeats |-> RepeatsLastCall(worktreePaths, repoPath),
                      before |-> FsState, success |-> r.success,
                      failed |-> r.failed, cmds |-> r.cmds,
                      trace |-> StaleTrace(FsState, worktreePaths, repoPath, oc)]
        /\ UNCHANGED <<now, pc, invVars, flowVars, log, allocs, attempts,
                       invocations, ghostVars, lastRun, otherConfig, otherFlows>>

\* a call cleanupWorktree(config)
ApiCleanupWorktree(worktreePath) ==
  \E gitOk \in BOOLEAN, rmOk \in BOOLEAN :
     LET cfg == [repoPath |-> getWorkspacePath(Host), worktreePath |-> worktreePath,
                 targetBranch |-> ApiBranch(worktreePath), sourceBranch |-> FEAT]
         r == cleanupWorktree(FsState, cfg, gitOk, rmOk)
     IN /\ SetFs(r.st)
        /\ lastOp' = [op |-> "cleanupWorktree", paths |-> <<worktreePath>>,
                      repoPath |-> cfg.repoPath, repeats |-> FALSE,
                      before |-> FsState, success |-> 0, failed |-> 0,
                      cmds |-> r.cmds, trace |-> <<>>]
        /\ UNCHANGED <<now, pc, invVars, flowVars, log, allocs, attempts,
                       invocations, ghostVars, lastRun, otherConfig, otherFlows>>

NextApi ==
  \/ \E worktreePaths \in ApiLists, repoPath \in {getWorkspacePath(Host), NULL} :
        ApiCleanupStale(worktreePaths, repoPath)
  \/ \E worktreePath \in ApiPaths : ApiCleanupWorktree(worktreePath)

SpecApi == InitApi /\ [][NextApi]_vars

InBaseDir(path) == StartsWith(path, getWorktreesBaseDir \o <<"/">>)

\* C10: every worktree path the engine acts on is a child of the base
\* directory, and neither cleanup routine deregisters or deletes a path
\* outside the base directory.
CleanupStaysInBaseDir ==
  /\ \A p \in Procs :
        config[p] # NoConfig => Dirname(config[p].worktreePath) = getWorktreesBaseDir
  /\ lastOp.op \in {"cleanupStaleWorktrees", "cleanupWorktree"} =>
        \A x \in ApiPaths :
           ~InBaseDir(x) =>
              /\ x \in lastOp.before.dirs => x \in dirs
              /\ x \in DOMAIN lastOp.before.tree => x \in DOMAIN tree


\* C11: a second call of cleanupStaleWorktrees on the list a first call has
\* just cleaned without failure raises no error, changes nothing on the
\* file system and reports no removed entry.
StaleCleanerIdempotent ==
  (lastOp.op = "cleanupStaleWorktrees" /\ lastOp.repeats) =>
     /\ lastOp.failed = 0
     /\ FsState = lastOp.before
     /\ lastOp.success = 0

\* C12: cleanupWorktree on a worktree directory that does not exist issues no
\* git command and leaves directories and worktree table as they were.
CleanupOfAbsentIsNoOp ==
  (lastOp.op = "cleanupWorktree" /\ lastOp.paths[1] \notin lastOp.before.dirs) =>
     /\ lastOp.cmds = <<>>
     /\ FsState = lastOp.before

\* cleanupWorktree was called on a directory that a call before had removed,
\* while other worktrees are still there
CleanupCalledAgain ==
  /\ lastOp.op = "cleanupWorktree"
  /\ lastOp.paths = <<InBase>>
  /\ InBase \notin lastOp.before.dirs
  /\ getWorktreesBaseDir \in lastOp.before.dirs
  /\ OutPlain \in DOMAIN tree

(***************************************************************************)
(* Properties of the reported outcome and of the guard.                    *)
(***************************************************************************)
\* the outcome reported for the flow of p that has returned
LastShown(p) == shown[p][Len(shown[p])]
LastResult(p) == results[p][Len(results[p])]

\* C13: a failing cleanup never changes the reported outcome.  A flow whose
\* stages all succeeded reports success with hasNewCommits as computed from
\* the two commit ids, a flow that failed at a stage reports the error of that
\* stage, whether or not cleanupWorktree managed to remove the worktree.
CleanupKeepsOutcome ==
  \A p \in Procs :
     FlowEnded(p) =>
        IF mode[p] = "single"
        THEN /\ Len(shown[p]) > 0
             /\ IF error[p] = UNDEFINED
                THEN LastShown(p) =
                        IF beforeMergeCommitId[p] # afterMergeCommitId[p]
                        THEN Msg("info", "success.mergeComplete")
                        ELSE Msg("warning", "warning.noNewCommits")
                ELSE /\ LastShown(p).level = "error"
                     /\ LastShown(p).detail = error[p]
        ELSE /\ Len(results[p]) > 0
             /\ LastResult(p).success = (error[p] = UNDEFINED)
             /\ LastResult(p).error = error[p]
             /\ LastResult(p).success =>
                   LastResult(p).hasNewCommits =
                      (beforeMergeCommitId[p] # afterMergeCommitId[p])

\* a flow reported success with new commits although its cleanup had failed and
\* left the worktree directory behind
SuccessDespiteFailedCleanup ==
  \E p \in Procs :
     /\ FlowEnded(p)
     /\ error[p] = UNDEFINED
     /\ config[p].worktreePath \in dirs
     /\ ~ReportedFailed(p)
     /\ beforeMergeCommitId[p] # afterMergeCommitId[p]

\* commands issued by checkUnpushedCommits and getCurrentBranchName
GuardQueries == {"rev-parse --abbrev-ref HEAD", "rev-parse --verify",
                 "rev-list --count HEAD", "log --oneline -n 5 HEAD",
                 "log --oneline range"}

\* the invocation of p has done nothing of a merge flow yet
NothingOfFlowYet(p) ==
  /\ config[p] = NoConfig
  /\ allocs[p] = <<>>
  /\ attempts[p] = <<>>
  /\ results[p] = <<>>
  /\ scanCalls[p] = 0
  /\ cleanupCalls[p] = 0

\* C14: when checkUnpushedCommits reports hasUnpushed = false, no prompt
\* is shown and no push of the source branch is attempted, and the invocation
\* stands where it stands after CONTINUE_WITHOUT_PUSH: at the start of the
\* merge flow, nothing shown, only the guard's queries issued.
CleanGuardContinues ==
  \A p \in Procs :
     /\ pc[p] \in {"prompt", "guardPush"} => report[p].hasUnpushed
     /\ guard[p] \in {"clean", "continue"} =>
           /\ pc[p] = AfterGuard(mode[p])
           /\ report[p] = NoReport
           /\ shown[p] = <<>>
           /\ idx[p] = 1
           /\ NothingOfFlowYet(p)
           /\ \A i \in 1..Len(log[p]) : log[p][i].cmd \in GuardQueries

\* a batch whose guard found nothing unpushed stands at its stale scan
CleanGuardPassed ==
  \E p \in Procs :
     /\ guard[p] = "clean"
     /\ mode[p] = "batch"
     /\ pc[p] = "scan"
     /\ Len(log[p]) > 0

\* C15: when the guard's decision is to abort (CANCEL, or the prompt dismissed)
\* the invocation is over before anything of a merge flow has happened: no
\* stale scan, no createWorktreeConfig, no createWorktree, no cleanup and no
\* command other than the guard's queries, for a single merge and for a batch.
AbortStopsInvocation ==
  \A p \in Procs :
     guard[p] \in {"cancel", "dismissed"} =>
        /\ pc[p] = "done"
        /\ NothingOfFlowYet(p)
        /\ \A i \in 1..Len(log[p]) : log[p][i].cmd \in GuardQueries

\* a batch of two targets ended by a dismissed prompt
DismissedBatch ==
  \E p \in Procs :
     /\ guard[p] = "dismissed"
     /\ mode[p] = "batch"
     /\ Len(targetBranches[p]) = 2
     /\ pc[p] = "done"

\* C16: when the guard's push fails the invocation is over before anything of
\* a merge flow has happened and error.pushFailed is shown, whereas an abort
\* shows nothing; when the push succeeds the invocation stands at the start of
\* the merge flow.
GuardPushFailureSurfaces ==
  \A p \in Procs :
     /\ guard[p] = "pushFailed" =>
           /\ pc[p] = "done"
           /\ NothingOfFlowYet(p)
           /\ shown[p] = <<Msg("error", "error.pushFailed")>>
           /\ log[p][Len(log[p])] =
                 Cmd("push", getWorkspacePath(p), sourceBranch[p])
     /\ guard[p] \in {"cancel", "dismissed"} => shown[p] = <<>>
     /\ guard[p] = "pushed" =>
           /\ pc[p] = AfterGuard(mode[p])
           /\ shown[p] = <<>>
           /\ NothingOfFlowYet(p)

\* the guard's push has failed in a single merge
GuardPushFailed ==
  \E p \in Procs :
     /\ guard[p] = "pushFailed"
     /\ mode[p] = "single"
     /\ Len(shown[p]) = 1

\* the flow of p reported that the merge brought new commits
ReportedNewCommits(p) ==
  IF mode[p] = "single"
  THEN LastShown(p).key = "success.mergeComplete"
  ELSE LastResult(p).hasNewCommits

\* C18: a successful flow reports hasNewCommits exactly when HEAD of the
\* worktree after the merge differs from HEAD before it (0 at the creation of
\* the worktree), also when `git rev-parse HEAD` fails.
HasNewCommitsTracksHead ==
  \A p \in Procs :
     (FlowEnded(p) /\ error[p] = UNDEFINED) => (ReportedNewCommits(p) <=> head[p] # 0)

\* C20: a batch calls checkAndPromptStaleWorktrees exactly once: not before its
\* scan step, once from there on, and before createWorktreeConfig or
\* createWorktree of its first target.
BatchScansOnce ==
  \A p \in Procs :
     mode[p] = "batch" =>
        /\ scanCalls[p] <= 1
        /\ pc[p] \in {"idle", "prompt", "guardPush", "scan"} => scanCalls[p] = 0
        /\ pc[p] \in {"alloc", "create", "switch", "pull", "before", "merge",
                       "after", "push", "cleanup"} => scanCalls[p] = 1
        /\ (allocs[p] # <<>> \/ attempts[p] # <<>> \/ results[p] # <<>>) =>
              scanCalls[p] = 1

\* a batch of two targets is over after one scan
TwoTargetsOneScan ==
  \E p \in Procs :
     /\ BatchDone(p)
     /\ Len(results[p]) = 2
     /\ scanCalls[p] = 1

(***************************************************************************)
(* Whole invocations as functions of the file system, the clock and the    *)
(* outcomes of the external commands, used to run the single-target entry  *)
(* point and a batch of one target side by side on the same inputs.        *)
(*   o : outcomes of the commands of one per-target flow                   *)
(*       [create, switch, pull, before, merge, after, push, gitOk, rmOk]   *)
(*       (merge: commits the merge adds on top of HEAD, -1 when it fails)  *)
(***************************************************************************)
\* the value of a one-element set (evaluates its element once)
The(S) == CHOOSE v \in S : TRUE

\* a try block at its first statement: file system, commands issued, error
\* thrown, the two commit ids and HEAD of the worktree
TryStart(st) ==
  [st |-> st, cmds |-> <<>>, error |-> UNDEFINED, beforeMergeCommitId |-> NullCommit,
   afterMergeCommitId |-> NullCommit, head |-> 0]

\* await of a primitive that returned r inside the try block; nothing runs
\* once an earlier statement has thrown
Await(acc, r, key) ==
  IF acc.error # UNDEFINED THEN acc
  ELSE [acc EXCEPT !.st = r.st, !.cmds = @ \o r.cmds,
                   !.error = IF r.ok THEN UNDEFINED ELSE key]

\* a call inside the try block that cannot throw
Call(acc, r) ==
  IF acc.error # UNDEFINED THEN acc
  ELSE [acc EXCEPT !.st = r.st, !.cmds = @ \o r.cmds]

\* a per-target flow of the batch that repeats the stale scan
SingleMergeFlowRescans(st, p, readOk, oc) ==
  LET r == checkAndPromptStaleWorktrees(st, p, readOk, oc)
  IN [st |-> r.st, cmds |-> r.cmds, calls |-> 1]

\* the stale scan at the head of the try block of executeSingleMergeFlow,
\* which is commented out: nothing runs
SingleMergeFlowScan(st, p, readOk, oc) == [st |-> st, cmds |-> <<>>, calls |-> 0]

\* the i-th statement of the try block of executeSingleMergeFlow, up to
\* pushToRemote
SingleMergeFlowStatement(acc, p, cfg, o, readOk, oc, i) ==
  CASE i = 1 -> Call(acc, SingleMergeFlowScan(acc.st, p, readOk, oc))
    [] i = 2 -> Await(acc, createWorktree(acc.st, cfg.repoPath, cfg.worktreePath,
                                          cfg.targetBranch, o.create),
                      "error.createWorktreeFailed")
    [] i = 3 -> Await(acc, switchToTargetBranch(acc.st, cfg.repoPath,
                                                cfg.worktreePath, cfg.targetBranch,
                                                o.switch),
                      "error.switchBranchFailed")
    [] i = 4 -> Await(acc, pullLatestCode(acc.st, cfg.worktreePath,
                                          cfg.targetBranch, o.pull),
                      "error.pullCodeFailed")
    [] i = 5 -> IF acc.error # UNDEFINED THEN acc
                ELSE LET q == getCurrentCommitId(acc.st, cfg.worktreePath, acc.head,
                                                 o.before)
                     IN [acc EXCEPT !.beforeMergeCommitId = q.id,
                                    !.cmds = @ \o q.cmds]
    [] i = 6 -> LET r == mergeBranch(acc.st, cfg.worktreePath, cfg.sourceBranch,
                                     o.merge # -1)
                IN IF acc.error # UNDEFINED THEN acc
                   ELSE [Await(acc, r, "error.mergeBranchFailed")
                           EXCEPT !.head = IF r.ok THEN @ + o.merge ELSE @]
    [] i = 7 -> IF acc.error # UNDEFINED THEN acc
                ELSE LET q == getCurrentCommitId(acc.st, cfg.worktreePath, acc.head,
                                                 o.after)
                     IN [acc EXCEPT !.afterMergeCommitId = q.id,
                                    !.cmds = @ \o q.cmds]
    [] OTHER -> Await(acc, pushToRemote(acc.st, cfg.worktreePath, cfg.targetBranch,
                                        o.push),
                      "error.pushToRemoteFailed")

\* the try block of executeSingleMergeFlow from its i-th statement on
RECURSIVE SingleMergeFlowTry(_, _, _, _, _, _, _)
SingleMergeFlowTry(acc, p, cfg, o, readOk, oc, i) ==
  IF i > 8 THEN acc
  ELSE The({SingleMergeFlowTry(v, p, cfg, o, readOk, oc, i + 1) :
              v \in {SingleMergeFlowStatement(acc, p, cfg, o, readOk, oc, i)}})

\* executeSingleMergeFlow after its first statement: the try block, then
\* cleanupWorktree in the try or the catch block, then the result
SingleMergeFlowBody(st, p, cfg, o, readOk, oc) ==
  The({The({[result |-> MergeResult(cfg.targetBranch,
                                    ErrorAfterCleanup(t.error, cleaned),
                                    t.beforeMergeCommitId, t.afterMergeCommitId),
             st |-> cleaned.st,
             cmds |-> t.cmds \o cleaned.cmds,
             cleanupCalls |-> CleanupCallsOnExit(t.error),
             scanCalls |-> SingleMergeFlowScan(st, p, readOk, oc).calls,
             worktreePath |-> cfg.worktreePath] :
              cleaned \in {cleanupWorktree(t.st, cfg, o.gitOk, o.rmOk)}}) :
         t \in {SingleMergeFlowTry(TryStart(st), p, cfg, o, readOk, oc, 1)}})

\* executeSingleMergeFlow(targetBranch, sourceBranch, workspacePath)
executeSingleMergeFlow(st, p, targetBranch, source, workspacePath, dateNow, o, readOk, oc) ==
  The({SingleMergeFlowBody(st, p, cfg, o, readOk, oc) :
         cfg \in {createWorktreeConfig(workspacePath, targetBranch, source, dateNow)}})

\* the loop of executeMultipleMergeCore from target i on; acc is
\* [st, cmds, results, cleanupCalls, scanCalls, worktreePath]
RECURSIVE MergeLoop(_, _, _, _, _, _, _, _, _, _)
MergeLoop(acc, p, targets, source, workspacePath, dateNow, os, readOk, oc, i) ==
  IF i > Len(targets) THEN acc
  ELSE The({LET next == [st |-> r.st,
                         cmds |-> acc.cmds \o r.cmds,
                         results |-> PushResult(acc.results, r.result),
                         cleanupCalls |-> acc.cleanupCalls + r.cleanupCalls,
                         scanCalls |-> acc.scanCalls + r.scanCalls,
                         worktreePath |-> r.worktreePath]
            IN IF LoopContinues(i, Len(targets), r.result)
               THEN The({MergeLoop(v, p, targets, source, workspacePath, dateNow,
                                   os, readOk, oc, i + 1) : v \in {next}})
               ELSE next :
              r \in {executeSingleMergeFlow(acc.st, p, targets[i], source,
                                            workspacePath, dateNow, os[i], readOk,
                                            oc)}})

\* executeMultipleMergeCore(targetBranches, sourceBranch, workspacePath, title)
executeMultipleMergeCore(st, p, targets, source, workspacePath, dateNow, os, readOk, oc) ==
  The({MergeLoop([st |-> scan.st, cmds |-> scan.cmds, results |-> <<>>,
                  cleanupCalls |-> 0, scanCalls |-> 1, worktreePath |-> NULL],
                 p, targets, source, workspacePath, dateNow, os, readOk, oc, 1) :
         scan \in {checkAndPromptStaleWorktrees(st, p, readOk, oc)}})

\* the i-th statement of the try block of executeWorkTreeFlow, up to
\* pushToRemote
WorkTreeFlowStatement(acc, p, cfg, o, readOk, oc, i) ==
  LET repoPath == cfg.repoPath
      worktreePath == cfg.worktreePath
      targetBranch == cfg.targetBranch
  IN CASE i = 1 -> Call(acc, checkAndPromptStaleWorktrees(acc.st, p, readOk, oc))
       [] i = 2 -> Await(acc, createWorktree(acc.st, repoPath, worktreePath,
                                             targetBranch, o.create),
                         "error.createWorktreeFailed")
       [] i = 3 -> Await(acc, switchToTargetBranch(acc.st, repoPath, worktreePath,
                                                   targetBranch, o.switch),
                         "error.switchBranchFailed")
       [] i = 4 -> Await(acc, pullLatestCode(acc.st, worktreePath, targetBranch,
                                             o.pull),
                         "error.pullCodeFailed")
       [] i = 5 -> IF acc.error # UNDEFINED THEN acc
                   ELSE LET q == getCurrentCommitId(acc.st, worktreePath, acc.head,
                                                    o.before)
                        IN [acc EXCEPT !.beforeMergeCommitId = q.id,
                                       !.cmds = @ \o q.cmds]
       [] i = 6 -> LET r == mergeBranch(acc.st, worktreePath, cfg.sourceBranch,
                                        o.merge # -1)
                   IN IF acc.error # UNDEFINED THEN acc
                      ELSE [Await(acc, r, "error.mergeBranchFailed")
                              EXCEPT !.head = IF r.ok THEN @ + o.merge ELSE @]
       [] i = 7 -> IF acc.error # UNDEFINED THEN acc
                   ELSE LET q == getCurrentCommitId(acc.st, worktreePath, acc.head,
                                                    o.after)
                        IN [acc EXCEPT !.afterMergeCommitId = q.id,
                                       !.cmds = @ \o q.cmds]
       [] OTHER -> Await(acc, pushToRemote(acc.st, worktreePath, targetBranch,
                                           o.push),
                         "error.pushToRemoteFailed")

\* the try block of executeWorkTreeFlow from its i-th statement on
RECURSIVE WorkTreeFlowTry(_, _, _, _, _, _, _)
WorkTreeFlowTry(acc, p, cfg, o, readOk, oc, i) ==
  IF i > 8 THEN acc
  ELSE The({WorkTreeFlowTry(v, p, cfg, o, readOk, oc, i + 1) :
              v \in {WorkTreeFlowStatement(acc, p, cfg, o, readOk, oc, i)}})

\* executeWorkTreeFlow(config): the try block, cleanupWorktree in the try or
\* the catch block, the message
executeWorkTreeFlow(st, p, cfg, o, readOk, oc) ==
  The({The({LET err == ErrorAfterCleanup(t.error, cleaned)
                hasNewCommits == t.beforeMergeCommitId # t.afterMergeCommitId
            IN [shown |-> <<SingleMessage(err, t.beforeMergeCommitId,
                                          t.afterMergeCommitId)>>,
                success |-> err = UNDEFINED,
                hasNewCommits |-> err = UNDEFINED /\ hasNewCommits,
                error |-> err,
                st |-> cleaned.st,
                cmds |-> t.cmds \o cleaned.cmds,
                cleanupCalls |-> CleanupCallsOnExit(t.error),
                scanCalls |-> 1,
                worktreePath |-> cfg.worktreePath] :
              cleaned \in {cleanupWorktree(t.st, cfg, o.gitOk, o.rmOk)}}) :
         t \in {WorkTreeFlowTry(TryStart(st), p, cfg, o, readOk, oc, 1)}})

\* checkAndHandleUnpushedCommits(repoPath, branchName) on facts f, with the
\* user's choice at the prompt and the outcome of pushCurrentBranch
checkAndHandleUnpushedCommits(f, repoPath, branchName, choice, pushOk) ==
  LET rep == checkUnpushedCommits(f)
      queries == GuardCmds(f, repoPath, branchName)
      push == Cmd("push", repoPath, branchName)
  IN IF GuardSkips(rep)
     THEN [continue |-> TRUE, cmds |-> queries, shown |-> <<>>, how |-> "clean"]
     ELSE CASE choice = "PUSH_AND_CONTINUE" ->
                 IF GuardPushProceeds(pushOk)
                 THEN [continue |-> TRUE, cmds |-> Append(queries, push),
                       shown |-> <<>>, how |-> "pushed"]
                 ELSE [continue |-> FALSE, cmds |-> Append(queries, push),
                       shown |-> <<Msg("error", "error.pushFailed")>>,
                       how |-> "pushFailed"]
            [] choice = "CONTINUE_WITHOUT_PUSH" ->
                 [continue |-> TRUE, cmds |-> queries, shown |-> <<>>,
                  how |-> "continue"]
            [] OTHER ->
                 [continue |-> FALSE, cmds |-> queries, shown |-> <<>>,
                  how |-> "abort"]

\* getCurrentBranchName() in workspace w: the branch and the command issued
getCurrentBranchName(st, w, how) ==
  [branch |-> IF how = "fail" THEN NULL ELSE st.tree[w].branch,
   cmds |-> IF how = "api" THEN <<>>
            ELSE <<Cmd("rev-parse --abbrev-ref HEAD", w, <<>>)>>]

\* what an invocation that ended before any flow leaves behind
EndedEarly(st, cmds, msgs, how) ==
  [guard |-> how, ran |-> FALSE, success |-> FALSE, hasNewCommits |-> FALSE,
   error |-> UNDEFINED, st |-> st, cmds |-> cmds, shown |-> msgs,
   cleanupCalls |-> 0, scanCalls |-> 0, worktreePath |-> NULL]

\* executeFlow(targetBranch) as a function of its inputs
\*   x : [how, f, choice, pushOk, readOk, oc, o]
executeFlowRun(st, p, targetBranch, dateNow, x) ==
  The({IF cur.branch = NULL
       THEN EndedEarly(st, cur.cmds, <<Msg("error", "error.cannotGetBranchInfo")>>,
                       "none")
       ELSE The({IF ~g.continue
                 THEN EndedEarly(st, cur.cmds \o g.cmds, g.shown, g.how)
                 ELSE The({[guard |-> g.how, ran |-> TRUE, success |-> w.success,
                            hasNewCommits |-> w.hasNewCommits, error |-> w.error,
                            st |-> w.st, cmds |-> cur.cmds \o g.cmds \o w.cmds,
                            shown |-> g.shown \o w.shown,
                            cleanupCalls |-> w.cleanupCalls,
                            scanCalls |-> w.scanCalls,
                            worktreePath |-> w.worktreePath] :
                             w \in {executeWorkTreeFlow(
                                      st, p,
                                      createWorktreeConfig(getWorkspacePath(p),
                                                           targetBranch, cur.branch,
                                                           dateNow),
                                      x.o, x.readOk, x.oc)}}) :
                   g \in {checkAndHandleUnpushedCommits(x.f, getWorkspacePath(p),
                                                        cur.branch, x.choice,
                                                        x.pushOk)}}) :
         cur \in {getCurrentBranchName(st, getWorkspacePath(p), x.how)}})

\* executeMultipleMergeGeneric(targetBranches, preset) as a function of its
\* inputs; os[i] are the outcomes of the flow of the i-th target
executeMultipleMergeGeneric(st, p, targets, dateNow, x, os) ==
  The({IF cur.branch = NULL
       THEN EndedEarly(st, cur.cmds, <<Msg("error", "error.cannotGetBranchInfo")>>,
                       "none")
       ELSE The({IF ~g.continue
                 THEN EndedEarly(st, cur.cmds \o g.cmds, g.shown, g.how)
                 ELSE The({LET last == c.results[Len(c.results)]
                           IN [guard |-> g.how, ran |-> TRUE,
                               success |-> last.success,
                               hasNewCommits |-> last.hasNewCommits,
                               error |-> last.error,
                               st |-> c.st, cmds |-> cur.cmds \o g.cmds \o c.cmds,
                               shown |-> g.shown \o
                                         <<showMultipleMergeResults(c.results)>>,
                               cleanupCalls |-> c.cleanupCalls,
                               scanCalls |-> c.scanCalls,
                               worktreePath |-> c.worktreePath] :
                             c \in {executeMultipleMergeCore(
                                      st, p, targets, cur.branch, getWorkspacePath(p),
                                      dateNow, os, x.readOk, x.oc)}}) :
                   g \in {checkAndHandleUnpushedCommits(x.f, getWorkspacePath(p),
                                                        cur.branch, x.choice,
                                                        x.pushOk)}}) :
         cur \in {getCurrentBranchName(st, getWorkspacePath(p), x.how)}})

\* outcomes of the commands of a per-target flow; what follows the first
\* failure is never run and is fixed
FlowOutcomes ==
  {o \in [create : {"mkdirFail", "gitFail", "ok"}, switch : BOOLEAN,
          pull : BOOLEAN, before : BOOLEAN, merge : {-1, 0, 1}, after : BOOLEAN,
          push : BOOLEAN, gitOk : BOOLEAN, rmOk : BOOLEAN] :
     /\ (o.create # "ok" \/ ~o.switch \/ ~o.pull) =>
           (o.before /\ o.merge = 0 /\ o.after /\ o.push)
     /\ o.create # "ok" => (o.switch /\ o.pull)
     /\ ~o.switch => o.pull
     /\ o.merge = -1 => (o.after /\ o.push)
     /\ ~o.gitOk => o.rmOk}

\* every command succeeds and the merge finds nothing new on the source
SmoothOutcome ==
  [create |-> "ok", switch |-> TRUE, pull |-> TRUE, before |-> TRUE, merge |-> 0,
   after |-> TRUE, push |-> TRUE, gitOk |-> TRUE, rmOk |-> TRUE]

\* `git merge "<remote>/<source>"` cannot succeed on a source that has no
\* remote-tracking ref (the ref `git rev-parse --verify` did not find; the
\* flow's `git pull <remote> <target>` does not create it)
GitOutcome(o, f) == [o EXCEPT !.merge = IF f.verifyOk THEN @ ELSE -1]

\* facts about the source branch: published without and with unpushed
\* commits, never published with commits, count query failing
FlowFacts ==
  {f \in GuardFacts : f.logOk /\ f.count \in {-1, 2} /\ f.range \in {-1, 2}}

\* the invocation gets past the guard
PassesGuard(how, f, choice, pushOk) ==
  /\ how # "fail"
  /\ checkAndHandleUnpushedCommits(f, <<>>, <<>>, choice, pushOk).continue

\* inputs that differ only in outcomes nothing reads are taken once
InputsRead(how, f, choice, pushOk, readOk, o) ==
  /\ (how = "fail" \/ GuardSkips(checkUnpushedCommits(f))) =>
        (choice = "CANCEL" /\ pushOk)
  /\ choice # "PUSH_AND_CONTINUE" => pushOk
  /\ ~PassesGuard(how, f, choice, pushOk) => (readOk /\ o = SmoothOutcome)

\* what is kept of an invocation to compare it with another one
Digest(r) ==
  [guard |-> r.guard, ran |-> r.ran, success |-> r.success,
   hasNewCommits |-> r.hasNewCommits, error |-> r.error, cmds |-> r.cmds,
   cleanupCalls |-> r.cleanupCalls, scanCalls |-> r.scanCalls, st |-> r.st,
   worktreePath |-> r.worktreePath]

\* the file system of Init
FreshFs == [dirs |-> Repos, tree |-> [r \in Repos |-> [repo |-> r, branch |-> FEAT]]]

\* file systems an earlier flow of the host (started at ClockStart for target
\* b) leaves behind, whether its cleanup removed the worktree or failed
FlowFileSystems ==
  {FreshFs} \cup
  {LET cfg == createWorktreeConfig(getWorkspacePath(Host), b, FEAT, ClockStart)
       made == createWorktree(FreshFs, cfg.repoPath, cfg.worktreePath, b, "ok").st
   IN cleanupWorktree(made, cfg, gitOk, rmOk).st :
     b \in TargetChoices, gitOk \in BOOLEAN, rmOk \in BOOLEAN}

InitFlows ==
  /\ HostsIdle
  /\ \E st \in FlowFileSystems : dirs = st.dirs /\ tree = st.tree

\* executeFlow(targetBranch) and executeMultipleMergeFlow([targetBranch]) on
\* the same file system, clock, facts, choice and command outcomes; the file
\* system goes on as the single-target invocation left it
RunPair(targetBranch, how, f, choice, pushOk, readOk, o) ==
  /\ lastRun = NoRun
  /\ InputsRead(how, f, choice, pushOk, readOk, o)
  /\ \E oc \in [1..Len(checkStaleWorktrees(FsState, readOk)) -> EntryOutcomes] :
     \E x \in {[how |-> how, f |-> f, choice |-> choice, pushOk |-> pushOk,
                readOk |-> readOk, oc |-> oc, o |-> GitOutcome(o, f)]} :
     \E single \in {executeFlowRun(FsState, Host, targetBranch, now, x)},
        batch \in {executeMultipleMergeGeneric(FsState, Host, <<targetBranch>>,
                                              now, x, <<x.o>>)} :
           /\ SetFs(single.st)
           /\ lastRun' = [op |-> "pair",
                          localOnly |-> checkUnpushedCommits(f).hasUnpushed,
                          published |-> f.verifyOk,
                          smooth |-> o = SmoothOutcome,
                          single |-> Digest(single),
                          batch |-> Digest(batch)]
  /\ UNCHANGED <<now, pc, invVars, flowVars, log, allocs, attempts, invocations,
                 restVars, ghostVars>>

\* the pair of invocations, or a millisecond passing before it
NextFlows ==
  \/ lastRun = NoRun /\ Tick
  \/ \E b \in TargetChoices, how \in {"api", "cli", "fail"}, f \in FlowFacts,
        choice \in {"PUSH_AND_CONTINUE", "CONTINUE_WITHOUT_PUSH", "CANCEL", UNDEFINED},
        pushOk \in BOOLEAN, readOk \in BOOLEAN, o \in FlowOutcomes :
        RunPair(b, how, f, choice, pushOk, readOk, o)

SpecFlows == InitFlows /\ [][NextFlows]_vars

\* C17: a flow on a source whose new commits are local only, continued
\* without push, in which every command that can succeed does and the merge
\* finds nothing new, ends as a success without new commits and leaves no
\* worktree directory; also for a source that was never published.
LocalOnlySourceIsNoOp ==
  (lastRun.op = "pair" /\ lastRun.localOnly /\ lastRun.smooth
   /\ lastRun.single.guard = "continue") =>
     /\ lastRun.single.success
     /\ ~lastRun.single.hasNewCommits
     /\ lastRun.single.worktreePath \notin dirs

\* C19: a batch of one target does what the single-target invocation does on
\* the same inputs: the same guard decision, the same commands in the same
\* order (guard, stale scan, flow, cleanup), as many cleanup and scan calls,
\* the same success / hasNewCommits / error, the same file system afterwards.
BatchOfOneMatchesSingle ==
  lastRun.op = "pair" =>
     LET s == lastRun.single
         b == lastRun.batch
     IN /\ s.guard = b.guard
        /\ s.ran = b.ran
        /\ s.cmds = b.cmds
        /\ s.cleanupCalls = b.cleanupCalls
        /\ s.scanCalls = b.scanCalls
        /\ s.success = b.success
        /\ s.hasNewCommits = b.hasNewCommits
        /\ s.error = b.error
        /\ s.st = b.st
        /\ s.worktreePath = b.worktreePath

\* both invocations cleaned a stale entry, created the worktree and merged
\* new commits
PairMergedAfterStaleClean ==
  /\ lastRun.op = "pair"
  /\ lastRun.single.ran /\ lastRun.batch.ran
  /\ lastRun.batch.success /\ lastRun.batch.hasNewCommits
  /\ \E i, j \in 1..Len(lastRun.batch.cmds) :
        /\ i < j
        /\ lastRun.batch.cmds[i].cmd = "worktree remove"
        /\ lastRun.batch.cmds[j].cmd = "worktree add"

(***************************************************************************)
(* Order of the operations of a per-target flow.                           *)
(***************************************************************************)
\* the commands of the stages of one flow, in the order of the code
StageOrder ==
  <<"worktree add", "switch", "pull", "rev-parse HEAD", "merge", "rev-parse HEAD", "push">>

IsStageCmd(c) == StageRank(c.cmd) > 0

\* number of stage commands a flow has issued when the stage of key has thrown
\* (createWorktree can throw before it runs git)
IssuedUpTo(key) ==
  CASE key = "error.createWorktreeFailed" -> {0, 1}
    [] key = "error.switchBranchFailed" -> {2}
    [] key = "error.pullCodeFailed" -> {3}
    [] key = "error.mergeBranchFailed" -> {5}
    [] key = "error.pushToRemoteFailed" -> {7}
    [] OTHER -> 0..7

\* C24: within one per-target flow the commands are issued in the order
\* create, switch, pull, commit snapshot, merge, commit snapshot, push, cleanup;
\* nothing is issued after a stage that failed except the cleanup; a flow whose
\* merge succeeded issues the push whether or not HEAD moved; and the outcome
\* is there only when cleanup has run.
StagesInOrder ==
  \A p \in {q \in Procs : config[q] # NoConfig} :
     LET L == log[p]
         S == SelectSeq(L, IsStageCmd)
     IN /\ Len(S) <= Len(StageOrder)
        /\ \A i \in 1..Len(S) : S[i].cmd = StageOrder[i]
        /\ error[p] # UNDEFINED => Len(S) \in IssuedUpTo(error[p])
        /\ \A i \in 1..Len(L) :
              L[i].cmd = "worktree remove" =>
                 \/ \A j \in 1..Len(L) : IsStageCmd(L[j]) => i < j
                 \/ /\ \A j \in 1..Len(L) : IsStageCmd(L[j]) => j < i
                    /\ cleanupCalls[p] = 1
        /\ (pc[p] = "cleanup" /\ error[p] = UNDEFINED) => Len(S) = Len(StageOrder)
        /\ FlowEnded(p) =>
              /\ cleanupCalls[p] = 1
              /\ ReportedFailed(p) <=> error[p] # UNDEFINED
              /\ error[p] \in {UNDEFINED, "error.pushToRemoteFailed"}
                    <=> Len(S) = Len(StageOrder)

\* a flow whose merge added nothing has pushed, cleaned up and returned success
PushedWithoutNewCommits ==
  \E p \in Procs :
     /\ FlowEnded(p)
     /\ error[p] = UNDEFINED
     /\ beforeMergeCommitId[p] = afterMergeCommitId[p]
     /\ beforeMergeCommitId[p] # NullCommit
     /\ \E i \in 1..Len(log[p]) : log[p][i].cmd = "push" /\ log[p][i].cwd = config[p].worktreePath
     /\ log[p][Len(log[p])].cmd = "worktree remove"
     /\ cleanupCalls[p] = 1

(***************************************************************************)
(* One target at a time.                                                   *)
(***************************************************************************)
\* the flows of the batch of p that were started and have not produced their
\* outcome, by their position in the batch
RunningFlows(p) == {i \in 1..Len(allocs[p]) : i > Len(results[p])}

\* the worktrees of the running flows of the batch of p that are on disk
LiveWorktrees(p) == {allocs[p][i].worktreePath : i \in RunningFlows(p)} \cap dirs

\* C25: a batch processes its targets one at a time: when the flow of target
\* i + 1 is started, and so before its worktree is created, the flows of
\* targets 1..i have run their cleanup and produced their outcomes, in order;
\* at no point are two flows of one batch running, or two of their worktrees
\* live.
BatchOneTargetAtATime ==
  \A p \in {q \in Procs : mode[q] = "batch"} :
     /\ Len(allocs[p]) - Len(results[p]) \in {0, 1}
     /\ Len(attempts[p]) <= Len(allocs[p])
     /\ Len(attempts[p]) >= Len(allocs[p]) - 1
     /\ Cardinality(RunningFlows(p)) <= 1
     /\ Cardinality(LiveWorktrees(p)) <= 1
     /\ \A i \in 1..Len(results[p]) :
           /\ results[p][i].targetBranch = targetBranches[p][i]
           /\ allocs[p][i].targetBranch = targetBranches[p][i]
     /\ (pc[p] \in {"create", "switch", "pull", "before", "merge", "after", "push",
                    "cleanup"})
           => /\ Len(allocs[p]) = idx[p]
              /\ Len(results[p]) = idx[p] - 1
              /\ cleanupCalls[p] = 0
     /\ pc[p] = "alloc" => (Len(results[p]) = idx[p] - 1 /\ Len(allocs[p]) = idx[p] - 1)

\* the worktree of the second target is on disk; the flow of the first has
\* returned its outcome and its worktree is gone
SecondWorktreeAfterFirstFlow ==
  \E p \in Procs :
     /\ mode[p] = "batch"
     /\ idx[p] = 2
     /\ pc[p] = "switch"
     /\ Len(results[p]) = 1
     /\ LiveWorktrees(p) = {allocs[p][2].worktreePath}
     /\ allocs[p][1].worktreePath \notin dirs
     /\ allocs[p][1].worktreePath # allocs[p][2].worktreePath

(***************************************************************************)
(* Failures of the stale scan and of the stale clean.                      *)
(***************************************************************************)
\* C27: no failure of the stale scan or of the stale clean stops the caller:
\* without the base directory, or when the listing fails, the scan returns no
\* entry, and whatever the removals of the entries did, the step after the
\* scan is the creation of the worktree (for a batch, of the worktree of the
\* first target) and no error is set.
StaleFailuresNotFatal ==
  [][\A p \in Procs :
        pc[p] = "scan" =>
           /\ checkStaleWorktrees(FsState, FALSE) = <<>>
           /\ getWorktreesBaseDir \notin dirs => checkStaleWorktrees(FsState, TRUE) = <<>>
           /\ pc'[p] # pc[p] =>
                 /\ pc'[p] = (IF mode[p] = "single" THEN "create" ELSE "alloc")
                 /\ error'[p] = UNDEFINED
                 /\ cleanupCalls'[p] = 0
                 /\ shown'[p] = shown[p]]_vars

\* the scan of this invocation left an entry on disk (the listing or the
\* removal failed) and the flow has created its worktree next to it
CreatedDespiteStaleFailure ==
  \E p \in Procs :
     /\ pc[p] = "switch"
     /\ scanCalls[p] = 1
     /\ config[p].worktreePath \in dirs
     /\ StaleEntries(FsState) \ {config[p].worktreePath} # {}

(***************************************************************************)
(* Failures that are swallowed.                                            *)
(***************************************************************************)
\* C31: only a failure of the cleanup is swallowed: a flow in which another
\* git command failed (here `git rev-parse HEAD` of a commit snapshot, which
\* leaves the commit id null) does not end as a success.
OnlyCleanupSwallowed ==
  \A p \in Procs :
     (FlowEnded(p) /\ error[p] = UNDEFINED) =>
        /\ beforeMergeCommitId[p] # NullCommit
        /\ afterMergeCommitId[p] # NullCommit
        /\ ~ReportedFailed(p)

(***************************************************************************)
(* A worktree that the cleanup of its flow left behind.                    *)
(***************************************************************************)
\* outcomes of a stale clean over n entries in which every fs.rmSync succeeds
RemovalsSucceed(n) == {oc \in [1..n -> EntryOutcomes] : \A i \in 1..n : oc[i].rm}

\* the worktree directories of the flows of the batch of p that have returned
ReturnedWorktrees(p) ==
  {allocs[p][i].worktreePath : i \in 1..Len(results[p])}

worldVars == <<now, fsVars, pc, invVars, flowVars, log, allocs, attempts, invocations,
               restVars, ghostVars>>

\* checkUnpushedCommits(repoPath, branchName) on a branch with facts f
ApplyCheckUnpushed(f) ==
  /\ lastRun' = [op |-> "checkUnpushedCommits", f |-> f,
                 report |-> checkUnpushedCommits(f)]
  /\ UNCHANGED worldVars

\* the k most recent of n commits, most recent first
Reference(n, k) == [i \in 1..(IF n < k THEN n ELSE k) |-> n - i + 1]

\* C21: the report of checkUnpushedCommits whose queries returned equals the
\* reference: without a remote-tracking ref and with N > 0 commits reachable
\* from HEAD it is {true, N, the min(N, 5) most recent}; with the ref and K
\* commits in <remote>/<branch>..HEAD it is {K > 0, K, the first min(K, 5)};
\* and in every report hasUnpushed holds exactly when commitCount > 0.
GuardReportMatchesReference ==
  lastRun.op = "checkUnpushedCommits" =>
     LET f == lastRun.f
         r == lastRun.report
     IN /\ (~f.verifyOk /\ f.count > 0 /\ f.logOk) =>
              r = [hasUnpushed |-> TRUE, commitCount |-> f.count,
                   commits |-> Reference(f.count, 5)]
        /\ (f.verifyOk /\ f.range >= 0) =>
              r = [hasUnpushed |-> f.range > 0, commitCount |-> f.range,
                   commits |-> Reference(f.range, 5)]
        /\ (f.verifyOk /\ f.range = 0) => r = NoReport
        /\ r.hasUnpushed <=> r.commitCount > 0

\* a never-published branch with more commits than are displayed
UnpublishedReportCapped ==
  /\ lastRun.op = "checkUnpushedCommits"
  /\ ~lastRun.f.verifyOk
  /\ lastRun.report.commitCount = MaxCommits
  /\ Len(lastRun.report.commits) = DisplayCap
  /\ MaxCommits > DisplayCap

\* the results executeSingleMergeFlow can return for one target
FlowResults ==
  {MergeResult(t, e, 1, a) : t \in TargetChoices, a \in {1, 2},
                            e \in {UNDEFINED, "error.createWorktreeFailed",
                                   "error.mergeFailed"}}

\* the result sequences executeMultipleMergeCore resolves with: one result for
\* each of the targets of a batch
ResultSeqs == SeqsUpTo(FlowResults, MaxTargets) \ {<<>>}

\* showMultipleMergeResults(results, sourceBranch, preset, targetBranches)
ApplyShowResults(rs) ==
  /\ lastRun' = [op |-> "showMultipleMergeResults", results |-> rs,
                 message |-> showMultipleMergeResults(rs)]
  /\ UNCHANGED worldVars

\* the targets of the results of rs whose success flag is b, in order
RECURSIVE TargetsWith(_, _)
TargetsWith(rs, b) ==
  IF Len(rs) = 0 THEN <<>>
  ELSE LET front == TargetsWith(SubSeq(rs, 1, Len(rs) - 1), b)
           last == rs[Len(rs)]
       IN IF last.success = b THEN Append(front, last.targetBranch) ELSE front

MASTER == <<"m","a","s","t","e","r">>

\* the single targets that are always listed
DefaultBranches == <<DEVELOP, RELEASE, MASTER>>

\* a filter that keeps the current branch
KeepsCurrent(branch, currentBranch) == TRUE

\* v => v !== currentBranch
NotCurrent(branch, currentBranch) == branch # currentBranch

RECURSIVE FilterNotCurrent(_, _)
FilterNotCurrent(bs, currentBranch) ==
  IF bs = <<>> THEN <<>>
  ELSE (IF NotCurrent(Head(bs), currentBranch) THEN <<Head(bs)>> ELSE <<>>)
       \o FilterNotCurrent(Tail(bs), currentBranch)

\* new Set(list) spread again: the first occurrence of every element, in order
RECURSIVE Distinct(_)
Distinct(bs) ==
  IF bs = <<>> THEN <<>>
  ELSE LET front == Distinct(SubSeq(bs, 1, Len(bs) - 1))
           last == bs[Len(bs)]
       IN IF \E i \in 1..Len(front) : front[i] = last THEN front
          ELSE Append(front, last)

\* presets without a name or without branches are dropped, the others lose
\* the current branch and are dropped when nothing is left
RECURSIVE ValidPresets(_, _)
ValidPresets(mergePresets, currentBranch) ==
  IF mergePresets = <<>> THEN <<>>
  ELSE LET preset == Head(mergePresets)
           rest == ValidPresets(Tail(mergePresets), currentBranch)
           branches == FilterNotCurrent(preset.branches, currentBranch)
       IN IF preset.name = "" \/ Len(preset.branches) = 0 THEN rest
          ELSE IF Len(branches) > 0
               THEN <<[name |-> preset.name, branches |-> branches]>> \o rest
               ELSE rest

\* the items manageWorktrees builds; none when the current branch is unknown
QuickPickItems(currentBranch, branches, mergePresets) ==
  IF currentBranch = NULL
  THEN [shown |-> FALSE, single |-> <<>>, presets |-> <<>>]
  ELSE The({[shown |-> Len(single) + Len(presets) > 0, single |-> single,
             presets |-> presets] :
              single \in {Distinct(FilterNotCurrent(DefaultBranches \o branches,
                                                   currentBranch))},
              presets \in {ValidPresets(mergePresets, currentBranch)}})

\* gitQuickMerge.branches of the configuration
ConfigBranches == {<<>>, <<FEAT>>, <<HOTFIX, DEVELOP>>}

\* gitQuickMerge.mergePresets of the configuration
ConfigPresets ==
  SeqsUpTo([name : {"", "preset"}, branches : SeqsUpTo(Branches, MaxTargets)],
           MaxTargets)

ApplyMenu(currentBranch, branches, mergePresets) ==
  /\ lastRun' = [op |-> "manageWorktrees", currentBranch |-> currentBranch,
                 mergePresets |-> mergePresets,
                 items |-> QuickPickItems(currentBranch, branches, mergePresets)]
  /\ UNCHANGED worldVars

\* the targets of every item of the menu
OfferedTargets(items) ==
  {items.single[i] : i \in 1..Len(items.single)} \cup
  UNION {{items.presets[i].branches[j] : j \in 1..Len(items.presets[i].branches)} :
           i \in 1..Len(items.presets)}

\* C23: the branch that is current when the menu is built is removed from the
\* single-target list and from the branch list of every preset, a preset left
\* without branches is not offered, so no offered target is the current branch.
MenuNeverOffersCurrent ==
  lastRun.op = "manageWorktrees" =>
     LET items == lastRun.items
         cur == lastRun.currentBranch
         kept == {i \in 1..Len(lastRun.mergePresets) :
                    /\ lastRun.mergePresets[i].name # ""
                    /\ \E j \in 1..Len(lastRun.mergePresets[i].branches) :
                          lastRun.mergePresets[i].branches[j] # cur}
     IN /\ cur \notin OfferedTargets(items)
        /\ \A i \in 1..Len(items.presets) : Len(items.presets[i].branches) > 0
        /\ cur # NULL => Len(items.presets) = Cardinality(kept)
        /\ \A i \in 1..Len(items.single) : \A j \in 1..Len(items.single) :
              items.single[i] = items.single[j] => i = j

\* on develop, a preset of develop alone is dropped and one of develop and
\* hotfix is offered with hotfix only
CurrentFilteredFromPresets ==
  /\ lastRun.op = "manageWorktrees"
  /\ lastRun.currentBranch = DEVELOP
  /\ lastRun.mergePresets = <<[name |-> "preset", branches |-> <<DEVELOP>>],
                              [name |-> "preset", branches |-> <<DEVELOP, HOTFIX>>]>>
  /\ lastRun.items.presets = <<[name |-> "preset", branches |-> <<HOTFIX>>]>>
  /\ DEVELOP \notin OfferedTargets(lastRun.items)

(***************************************************************************)
(* Failures of `git push`.                                                 *)
(***************************************************************************)
PERMISSION_DENIED == <<"P","e","r","m","i","s","s","i","o","n"," ","d","e","n","i","e","d">>
NO_HOSTNAME == <<"C","o","u","l","d"," ","n","o","t"," ","r","e","s","o","l","v","e"," ","h","o","s","t","n","a","m","e">>
REJECTED == <<"r","e","j","e","c","t","e","d">>
NON_FAST_FORWARD == <<"n","o","n","-","f","a","s","t","-","f","o","r","w","a","r","d">>
TIMED_OUT == <<"t","i","m","e","d"," ","o","u","t">>

\* the error texts of a failed `git push`: one or two lines of stderr
PushErrorTexts ==
  LET lines == {PERMISSION_DENIED, NO_HOSTNAME, REJECTED, NON_FAST_FORWARD, TIMED_OUT}
  IN lines \cup {first \o <<" ">> \o second : first \in lines, second \in lines}

\* the message of the error the catch block of pushCurrentBranch throws
pushCurrentBranchError(errorMessage) ==
  IF Includes(errorMessage, PERMISSION_DENIED)
  THEN <<"push failed: permission denied, check SSH key or token">>
  ELSE IF Includes(errorMessage, NO_HOSTNAME)
  THEN <<"push failed: cannot reach remote, check network">>
  ELSE IF Includes(errorMessage, REJECTED)
  THEN <<"push failed: rejected, pull remote updates first">>
  ELSE IF Includes(errorMessage, NON_FAST_FORWARD)
  THEN <<"push failed: non-fast-forward, pull and merge remote changes first">>
  ELSE <<"push branch failed: ">> \o errorMessage

\* an error that keeps the context only
ContextOnly(message, context) == <<context>>

\* the message of new Error(`${context}: ${message}`)
handleError(message, context) == <<context, ": ">> \o message

\* the message of the error the catch block of pushToRemote throws
pushToRemoteError(errorMessage) == handleError(errorMessage, "error.pushToRemoteFailed")

\* `git push` fails with errorMessage in the guard and in the push stage
ApplyPushFailure(errorMessage) ==
  /\ lastRun' = [op |-> "push failure", errorMessage |-> errorMessage,
                 guardError |-> pushCurrentBranchError(errorMessage),
                 stageError |-> pushToRemoteError(errorMessage)]
  /\ UNCHANGED worldVars

\* the guidance a message gives
Guidance(text) ==
  LET message == Head(text)
  IN
  CASE message = "push failed: permission denied, check SSH key or token" -> "credential"
    [] message = "push failed: cannot reach remote, check network" -> "connectivity"
    [] message = "push failed: rejected, pull remote updates first" -> "pull first"
    [] message = "push failed: non-fast-forward, pull and merge remote changes first"
         -> "pull first"
    [] OTHER -> "generic"

\* the guidances the substrings of an error text call for
Called(errorMessage) ==
  (IF Includes(errorMessage, PERMISSION_DENIED) THEN {"credential"} ELSE {}) \cup
  (IF Includes(errorMessage, NO_HOSTNAME) THEN {"connectivity"} ELSE {}) \cup
  (IF Includes(errorMessage, REJECTED) \/ Includes(errorMessage, NON_FAST_FORWARD)
   THEN {"pull first"} ELSE {})

\* an error classified by the substrings of the text it was built from
Classified(err, errorMessage) ==
  IF Called(errorMessage) = {} THEN Guidance(err) = "generic"
  ELSE Guidance(err) \in Called(errorMessage)

\* C28: a push failure is classified by substrings of the error text, in the
\* guard's push of the source branch and in the push stage of a merge flow:
\* credential, connectivity or pull-first guidance when the text contains the
\* matching substring, the generic message only when none matches.
PushFailureClassified ==
  lastRun.op = "push failure" =>
     /\ Classified(lastRun.guardError, lastRun.errorMessage)
     /\ Classified(lastRun.stageError, lastRun.errorMessage)

\* the guard's push alone is classified by the substrings
GuardPushFailureClassified ==
  lastRun.op = "push failure" => Classified(lastRun.guardError, lastRun.errorMessage)

(***************************************************************************)
(* One entry of the stale cleaner.                                         *)
(***************************************************************************)
\* file systems in which each of ApiPaths is absent, a plain directory or a
\* registered worktree of the workspace repository of Host
ApiFileSystems ==
  {[dirs |-> Repos \cup present \cup {Dirname(x) : x \in present},
    tree |-> [d \in Repos \cup registered |->
                IF d \in Repos THEN [repo |-> d, branch |-> FEAT]
                ELSE [repo |-> getWorkspacePath(Host), branch |-> ApiBranch(d)]]] :
     present \in SUBSET ApiPaths, registered \in SUBSET ApiPaths}

\* cleanupStaleWorktrees([worktreePath], repoPath) on file system st
ApplyStaleStep(st, worktreePath, repoPath, o) ==
  /\ \A d \in DOMAIN st.tree : d \in st.dirs
  /\ lastRun' = [op |-> "cleanupStaleWorktrees", before |-> st, entry |-> worktreePath,
                 repoPath |-> repoPath, o |-> o,
                 result |-> cleanupStaleWorktrees(st, <<worktreePath>>, repoPath, <<o>>)]
  /\ UNCHANGED worldVars

\* C26: for an entry with the marker the stale cleaner first runs
\* `git worktree remove` for it and, whether that succeeded or failed, goes on
\* to remove the directory: the entry is counted as failed, and is left on
\* disk, only when the removal of the directory itself fails.
StaleCleanerRemovesDespiteGit ==
  (lastRun.op = "cleanupStaleWorktrees" /\ Includes(lastRun.entry, MARKER)) =>
     LET r == lastRun.result
         deregistered == lastRun.entry \notin DOMAIN r.st.tree
         gone == lastRun.entry \notin r.st.dirs
     IN /\ lastRun.repoPath # NULL =>
              r.cmds = <<Cmd("worktree remove", lastRun.repoPath,
                             Basename(lastRun.entry))>>
        /\ r.success + r.failed = 1
        /\ lastRun.o.rm => (gone /\ r.success = 1)
        /\ r.failed = 1 => (~lastRun.o.rm /\ ~gone)
        /\ gone <=> r.success = 1

\* `git worktree remove` failed for a registered entry, the directory was
\* removed all the same and the entry counted as cleaned
StaleRemovedAfterGitFailure ==
  /\ lastRun.op = "cleanupStaleWorktrees"
  /\ lastRun.entry = InBase
  /\ InBase \in DOMAIN lastRun.before.tree
  /\ lastRun.repoPath # NULL
  /\ ~lastRun.o.git /\ lastRun.o.rm
  /\ InBase \notin lastRun.result.st.dirs
  /\ lastRun.result.success = 1 /\ lastRun.result.failed = 0

(***************************************************************************)
(* The guard in front of a flow, against what the source branch holds.     *)
(***************************************************************************)
\* unpushed is the number of commits of the source branch that are not on the
\* remote; a query of the guard that returns, returns what the branch holds
AgreesWith(f, unpushed) ==
  /\ (~f.verifyOk /\ f.count >= 0) => f.count = unpushed
  /\ (f.verifyOk /\ f.range >= 0) => f.range = unpushed

\* executeFlow(targetBranch) on a source branch with unpushed commits not on
\* the remote, every command but the guard's queries succeeding
ApplyGuardedFlow(targetBranch, f, unpushed, choice, pushOk) ==
  /\ AgreesWith(f, unpushed)
  /\ choice # "PUSH_AND_CONTINUE" => pushOk
  /\ \E x \in {[how |-> "cli", f |-> f, choice |-> choice, pushOk |-> pushOk,
                 readOk |-> TRUE, oc |-> <<>>, o |-> GitOutcome(SmoothOutcome, f)]} :
     \E run \in {executeFlowRun(FsState, Host, targetBranch, now, x)} :
        /\ SetFs(run.st)
        /\ lastRun' = [op |-> "executeFlow", f |-> f, unpushed |-> unpushed,
                       choice |-> choice, guard |-> run.guard, cmds |-> run.cmds,
                       shown |-> run.shown]
  /\ UNCHANGED <<now, pc, invVars, flowVars, log, allocs, attempts, invocations,
                 restVars, ghostVars>>

\* `git worktree add` was issued
WorktreeAddIssued(cmds) == \E i \in 1..Len(cmds) : cmds[i].cmd = "worktree add"

\* C29: whenever the source branch has unpushed commits, no worktree is
\* created unless the user was prompted and chose PushAndContinue or
\* ContinueWithoutPush, also when a git query of the guard fails.
GuardNeverSilentlyDefaulted ==
  (lastRun.op = "executeFlow" /\ lastRun.unpushed > 0
   /\ WorktreeAddIssued(lastRun.cmds)) =>
     /\ lastRun.guard \in {"pushed", "continue"}
     /\ lastRun.choice \in {"PUSH_AND_CONTINUE", "CONTINUE_WITHOUT_PUSH"}

\* the same for the flows whose guard queries all returned
GuardDecidesWhenQueriesReturn ==
  (lastRun.op = "executeFlow" /\ lastRun.unpushed > 0
   /\ WorktreeAddIssued(lastRun.cmds)
   /\ (IF lastRun.f.verifyOk THEN lastRun.f.range >= 0
       ELSE lastRun.f.count >= 0 /\ lastRun.f.logOk)) =>
     /\ lastRun.guard \in {"pushed", "continue"}
     /\ lastRun.choice \in {"PUSH_AND_CONTINUE", "CONTINUE_WITHOUT_PUSH"}

(***************************************************************************)
(* The error of a failed flow.                                             *)
(***************************************************************************)
\* outcomes the five stage commands of a flow would have, were they run
StageOutcomes ==
  {[SmoothOutcome EXCEPT !.create = c, !.switch = sw, !.pull = pl, !.merge = mg,
                         !.push = ps] :
     c \in {"mkdirFail", "gitFail", "ok"}, sw \in BOOLEAN, pl \in BOOLEAN,
     mg \in {-1, 1}, ps \in BOOLEAN}

\* a source branch in sync with its remote-tracking ref
SyncedFacts == [verifyOk |-> TRUE, count |-> -1, logOk |-> TRUE, range |-> 0]

\* executeFlow(targetBranch) and executePresetMergeFlow of [targetBranch] where
\* the stage commands have outcomes o and a failing command has error text
\* errorMessage: the error the failed stage throws, the error of the returned
\* result and the text of the message shown
ApplyFlowFailure(targetBranch, o, errorMessage) ==
  /\ \E x \in {[how |-> "cli", f |-> SyncedFacts, choice |-> "CANCEL", pushOk |-> TRUE,
                 readOk |-> TRUE, oc |-> <<>>, o |-> o]} :
     \E single \in {executeFlowRun(FsState, Host, targetBranch, now, x)},
        batch \in {executeMultipleMergeGeneric(FsState, Host, <<targetBranch>>,
                                              now, x, <<o>>)} :
     \E thrown \in {IF batch.error = UNDEFINED THEN <<>>
                     ELSE handleError(errorMessage, batch.error)} :
        /\ SetFs(single.st)
        /\ lastRun' = [op |-> "flow failure", o |-> o, errorMessage |-> errorMessage,
                       key |-> single.error,
                       detail |-> single.shown[Len(single.shown)].detail,
                       error |-> thrown,
                       text |-> IF thrown = <<>> THEN <<>>
                                ELSE handleError(thrown, "merge process")]
  /\ UNCHANGED <<now, pc, invVars, flowVars, log, allocs, attempts, invocations,
                 restVars, ghostVars>>

\* the first of the stages create, switch, pull, merge, push whose command
\* fails under o
FirstFailed(o) ==
  CASE o.create # "ok" -> "error.createWorktreeFailed"
    [] o.create = "ok" /\ ~o.switch -> "error.switchBranchFailed"
    [] o.create = "ok" /\ o.switch /\ ~o.pull -> "error.pullCodeFailed"
    [] o.create = "ok" /\ o.switch /\ o.pull /\ o.merge = -1 -> "error.mergeBranchFailed"
    [] o.create = "ok" /\ o.switch /\ o.pull /\ o.merge # -1 /\ ~o.push
         -> "error.pushToRemoteFailed"
    [] OTHER -> UNDEFINED

\* C30: each of the stages create, switch, pull, merge and push fails with a
\* classification of its own, and the error of a failed outcome is that of the
\* first stage that failed in the flow, wrapped around the failure text of the
\* command.
FailedOutcomeCarriesFirstFailure ==
  lastRun.op = "flow failure" =>
     /\ lastRun.key = FirstFailed(lastRun.o)
     /\ lastRun.detail = lastRun.key
     /\ lastRun.key # UNDEFINED =>
           /\ Len(lastRun.error) = Len(lastRun.errorMessage) + 2
           /\ lastRun.error[1] = lastRun.key
           /\ SubSeq(lastRun.error, 3, Len(lastRun.error)) = lastRun.errorMessage
           /\ SubSeq(lastRun.text, 3, Len(lastRun.text)) = lastRun.error
     /\ Cardinality({"error.createWorktreeFailed", "error.switchBranchFailed",
                     "error.pullCodeFailed", "error.mergeBranchFailed",
                     "error.pushToRemoteFailed"}) = 5

\* the pull failed in a flow whose push would have failed as well: the error
\* is the one of the pull, around the text of the command
PullFailureReportedFirst ==
  /\ lastRun.op = "flow failure"
  /\ lastRun.o.create = "ok" /\ lastRun.o.switch
  /\ ~lastRun.o.pull /\ ~lastRun.o.push
  /\ lastRun.errorMessage = TIMED_OUT
  /\ lastRun.error = <<"error.pullCodeFailed", ": ">> \o TIMED_OUT

(***************************************************************************)
(* From the menu to the merge job.                                         *)
(***************************************************************************)
\* the items of the menu as (targets to merge into), single targets first
MenuPicks(items) ==
  [i \in 1..(Len(items.single) + Len(items.presets)) |->
     IF i <= Len(items.single) THEN <<items.single[i]>>
     ELSE items.presets[i - Len(items.single)].branches]

\* the presets of the configuration of this menu
MenuPresets == {<<>>, <<[name |-> "preset", branches |-> <<DEVELOP, HOTFIX>>]>>}

\* manageWorktrees() while atMenu is checked out, the user picks item pick
\* while atPick is checked out: executeFlow(target) for a single target or a
\* preset of one branch, executePresetMergeFlow(preset) otherwise.  jobs are
\* the configurations createWorktreeConfig returned.
ApplyMenuPick(atMenu, mergePresets, pick, atPick) ==
  \E items \in {QuickPickItems(atMenu, <<>>, mergePresets)} :
     /\ pick \in DOMAIN MenuPicks(items)
     /\ \E targets \in {MenuPicks(items)[pick]},
           st \in {[FsState EXCEPT !.tree[getWorkspacePath(Host)].branch = atPick]},
           x \in {[how |-> "cli", f |-> SyncedFacts, choice |-> "CANCEL",
                   pushOk |-> TRUE, readOk |-> TRUE, oc |-> <<>>,
                   o |-> SmoothOutcome]} :
        \E run \in {IF Len(targets) = 1
                     THEN executeFlowRun(st, Host, targets[1], now, x)
                     ELSE executeMultipleMergeGeneric(
                            st, Host, targets, now, x,
                            [i \in 1..Len(targets) |-> SmoothOutcome])},
           source \in {getCurrentBranchName(st, getWorkspacePath(Host), "cli").branch} :
           /\ SetFs(run.st)
           /\ lastRun' = [op |-> "menu pick", atMenu |-> atMenu, atPick |-> atPick,
                          targets |-> targets,
                          jobs |-> IF run.ran
                                   THEN [i \in 1..Len(targets) |->
                                           createWorktreeConfig(getWorkspacePath(Host),
                                                                targets[i], source, now)]
                                   ELSE <<>>,
                          error |-> run.error]
  /\ UNCHANGED <<now, pc, invVars, flowVars, log, allocs, attempts, invocations,
                 restVars, ghostVars>>

\* C33: every merge job that is created has a target branch different from
\* its source branch, also when the checked-out branch changes between the
\* construction of the menu and the selection.
JobTargetDiffersFromSource ==
  lastRun.op = "menu pick" =>
     \A i \in 1..Len(lastRun.jobs) :
        lastRun.jobs[i].targetBranch # lastRun.jobs[i].sourceBranch

\* the same when the checked-out branch is the one the menu was built on
JobTargetDiffersWhenBranchKept ==
  (lastRun.op = "menu pick" /\ lastRun.atMenu = lastRun.atPick) =>
     \A i \in 1..Len(lastRun.jobs) :
        lastRun.jobs[i].targetBranch # lastRun.jobs[i].sourceBranch

\* one application in each behaviour
NextPure ==
  /\ lastRun = NoRun
  /\ \/ \E f \in GuardFacts : ApplyCheckUnpushed(f)
     \/ \E rs \in ResultSeqs : ApplyShowResults(rs)
     \/ \E currentBranch \in Branches \cup {NULL}, branches \in ConfigBranches,
           mergePresets \in ConfigPresets :
           ApplyMenu(currentBranch, branches, mergePresets)
     \/ \E errorMessage \in PushErrorTexts : ApplyPushFailure(errorMessage)
     \/ \E st \in ApiFileSystems, worktreePath \in ApiPaths,
           repoPath \in {getWorkspacePath(Host), NULL}, o \in EntryOutcomes :
           ApplyStaleStep(st, worktreePath, repoPath, o)
     \/ \E b \in TargetChoices, f \in GuardFacts, unpushed \in 0..MaxCommits,
           choice \in {"PUSH_AND_CONTINUE", "CONTINUE_WITHOUT_PUSH", "CANCEL", UNDEFINED},
           pushOk \in BOOLEAN :
           ApplyGuardedFlow(b, f, unpushed, choice, pushOk)
     \/ \E b \in TargetChoices, o \in StageOutcomes,
           errorMessage \in {TIMED_OUT, REJECTED} :
           ApplyFlowFailure(b, o, errorMessage)
     \/ \E atMenu \in Branches, mergePresets \in MenuPresets,
           pick \in 1..(Len(DefaultBranches) + 1), atPick \in Branches :
           ApplyMenuPick(atMenu, mergePresets, pick, atPick)

SpecPure == Init /\ [][NextPure]_vars

====
